---- MODULE Spec2Model ----
(***************************************************************************)
(* A model of the data mapper (SchemaDefDataPrep), the shape transformer   *)
(* and the slice partitioner (SchemaDefReShape, SliceValues) of py-rcsb_db.*)
(*                                                                         *)
(* Python strings are sequences of one-character strings, so that len(),   *)
(* slicing, replace() and split() are computed and not assumed.  A python  *)
(* dict is a function whose domain is the set of its keys.                 *)
(***************************************************************************)
EXTENDS Integers, Sequences, FiniteSets, TLC

(***************************************************************************)
(* Bounds of the model.                                                    *)
(***************************************************************************)
\* raw rows mapped by one SchemaDefDataPrep object over all its calls
MaxRows == 2
\* containers mapped by one SchemaDefDataPrep object over all its calls
MaxContainers == 2
\* process() calls on one SchemaDefDataPrep object
MaxCalls == 2

\* the most rows of a sliced table of a mapping that is reshaped
MaxTableRows == 2
\* the most rows of the sliced tables of a mapping that is reshaped, together
MaxShapeRows == 3

(***************************************************************************)
(* Generic helpers.                                                        *)
(***************************************************************************)
Max(S) == CHOOSE x \in S : \A y \in S : y <= x

Min2(a, b) == IF a <= b THEN a ELSE b

Range(s) == {s[i] : i \in 1..Len(s)}

\* seq.index(x) + 1 for an x that occurs in seq
IndexOf(s, x) == CHOOSE i \in 1..Len(s) : s[i] = x /\ \A j \in 1..(i - 1) : s[j] # x

\* d[k] = v on a dict d
Put(d, k, v) == (k :> v) @@ d

EmptyDict == <<>>

(***************************************************************************)
(* Mapped values: a python str, the schema's null default, a datetime and  *)
(* a list of str.                                                          *)
(***************************************************************************)
Str(s) == [t |-> "str", v |-> s]

Null == [t |-> "null", v |-> <<>>]

Date(s) == [t |-> "date", v |-> s]

List(l) == [t |-> "list", v |-> l]

QMark == <<"?">>

Dot == <<".">>

(***************************************************************************)
(* The schema of the mapper runs (the Schema Provider's table definitions).*)
(* TS is mapped from the single category cs, TM is merged from ca and cb   *)
(* on the merge keys ca.a1 / cb.a3; A2 is mapped by both categories and A0 *)
(* by none.  DB is filled by the function datablockid().                   *)
(***************************************************************************)
TableDefTS ==
    [id |-> "TS", name |-> "ts",
     attrs |-> <<"VAL", "DT", "DB">>,
     cats |-> <<"cs">>,
     map |-> [VAL |-> "val", DT |-> "dt"],
     catAttrs |-> [cs |-> <<"VAL", "DT">>],
     width |-> [VAL |-> 2, DT |-> 2, DB |-> 0],
     date |-> {"DT"},
     iter |-> {"VAL"},
     sep |-> [VAL |-> ","],
     merge |-> [cs |-> <<>>],
     other |-> <<"DB">>,
     fn |-> [DB |-> "datablockid()"],
     unitCard |-> TRUE]

TableDefTM ==
    [id |-> "TM", name |-> "tm",
     attrs |-> <<"A0", "A1", "A2", "A3">>,
     cats |-> <<"ca", "cb">>,
     map |-> [A1 |-> "a1", A2 |-> "a2", A3 |-> "a3"],
     catAttrs |-> [ca |-> <<"A1", "A2">>, cb |-> <<"A2", "A3">>],
     width |-> [A0 |-> 2, A1 |-> 2, A2 |-> 2, A3 |-> 2],
     date |-> {},
     iter |-> {},
     sep |-> [A2 |-> ","],
     merge |-> [ca |-> <<"a1">>, cb |-> <<"a3">>],
     other |-> <<>>,
     fn |-> <<>>,
     unitCard |-> FALSE]

\* a table that no instance category is mapped to
TableDefTE ==
    [id |-> "TE", name |-> "te",
     attrs |-> <<"E1">>,
     cats |-> <<>>,
     map |-> <<>>,
     catAttrs |-> <<>>,
     width |-> [E1 |-> 2],
     date |-> {},
     iter |-> {},
     sep |-> <<>>,
     merge |-> <<>>,
     other |-> <<>>,
     fn |-> <<>>,
     unitCard |-> FALSE]

\* self.__sD.getTableIdList()
TableIdList == <<"TS", "TM">>

\* the table id lists of the schemas that hold the table TE, before and
\* after a table that receives rows
TableIdListsTE == {<<"TE", "TS">>, <<"TS", "TE">>}

\* self.__sD.getTable(tableId)
GetTable(tableId) ==
    IF tableId = "TS" THEN TableDefTS
    ELSE IF tableId = "TE" THEN TableDefTE
    ELSE TableDefTM

\* tObj.getSqlNullValueDict()[atId]
NullValue(tObj, atId) == Null

\* the filter tokens a caller combines in filterType
FilterTokens ==
    {"drop-empty-attributes", "drop-empty-tables", "skip-max-width",
     "assign-dates", "convert-iterables"}

(***************************************************************************)
(* String functions of the mapper.                                         *)
(***************************************************************************)
\* val[:n]
Take(val, n) == SubSeq(val, 1, Min2(n, Len(val)))

\* value.replace(old, new, 1) for one-character old and new
RECURSIVE ReplaceFirst(_, _, _)
ReplaceFirst(value, old, new) ==
    IF value = <<>> THEN <<>>
    ELSE IF Head(value) = old THEN <<new>> \o Tail(value)
    ELSE <<Head(value)>> \o ReplaceFirst(Tail(value), old, new)

\* v.strip()
RECURSIVE LStrip(_)
LStrip(v) == IF v # <<>> /\ Head(v) = " " THEN LStrip(Tail(v)) ELSE v

RECURSIVE RStrip(_)
RStrip(v) ==
    IF v # <<>> /\ v[Len(v)] = " " THEN RStrip(SubSeq(v, 1, Len(v) - 1)) ELSE v

Strip(v) == RStrip(LStrip(v))

\* val.split(sep) for a one-character separator
RECURSIVE SplitAcc(_, _, _)
SplitAcc(val, sep, cur) ==
    IF val = <<>> THEN <<cur>>
    ELSE IF Head(val) = sep THEN <<cur>> \o SplitAcc(Tail(val), sep, <<>>)
    ELSE SplitAcc(Tail(val), sep, Append(cur, Head(val)))

Split(val, sep) == SplitAcc(val, sep, <<>>)

\* [v.strip() for v in val.split(sep)]
SplitStrip(val, sep) ==
    LET parts == Split(val, sep) IN [i \in 1..Len(parts) |-> Strip(parts[i])]

\* dateutil.parser.parse(value) succeeds on a date and on a date followed by
\* a blank and a time; "D" stands for yyyy-mm-dd and "T" for hh:mm:ss
DateParses(value) == value \in {<<"D">>, <<"D", " ", "T">>}

\* __assignDateType: the colon between date and time becomes a blank, the
\* result is parsed, and a parse failure returns the string as it then is
AssignDateType(atId, value) ==
    LET value2 == ReplaceFirst(value, ":", " ") IN
    IF DateParses(value2) THEN Date(value2) ELSE Str(value2)

\* (lenVal == 0) or (val == '?') or (val == '.')
IsEmptyValue(val) == Len(val) = 0 \/ val = QMark \/ val = Dot

(***************************************************************************)
(* __mapInstanceCategory: one category mapped to one table, no merging.    *)
(***************************************************************************)
\* the other way to keep the width record: the last overflow wins
OverWriteLast(ow, tup, lenVal) == Put(ow, tup, lenVal)

\* self.__overWrite[tup] = max(self.__overWrite[tup], lenVal), or lenVal for
\* a first entry
OverWriteUpdate(ow, tup, lenVal) ==
    IF tup \in DOMAIN ow
    THEN Put(ow, tup, IF ow[tup] >= lenVal THEN ow[tup] ELSE lenVal)
    ELSE Put(ow, tup, lenVal)

\* the body of the loop over curAttributeIdList for one attribute id; st is
\* the row dictionary d and the object's width record
MapAttribute(tObj, cat, row, filterType, atId, st) ==
    LET atName == tObj.map[atId] IN
    IF atName \notin Range(cat.attrs) THEN st
    ELSE
    LET idx == IndexOf(cat.attrs, atName) IN
    IF idx > Len(row) THEN st
    ELSE
    LET val == row[idx]
        maxW == IF "skip-max-width" \in filterType THEN 0 ELSE tObj.width[atId]
        lenVal == Len(val)
    IN
    IF "drop-empty-attributes" \in filterType /\ IsEmptyValue(val) THEN st
    ELSE IF "assign-dates" \in filterType /\ atId \in tObj.date /\ ~IsEmptyValue(val)
         THEN [st EXCEPT !.d = Put(st.d, atId, AssignDateType(atId, val))]
    ELSE IF "convert-iterables" \in filterType /\ atId \in tObj.iter /\ ~IsEmptyValue(val)
         THEN [st EXCEPT !.d = Put(st.d, atId, List(SplitStrip(val, tObj.sep[atId])))]
    ELSE IF maxW > 0
         THEN [d |-> Put(st.d, atId,
                         IF val # QMark /\ val # Dot
                         THEN Str(Take(val, maxW)) ELSE NullValue(tObj, atId)),
               ow |-> IF lenVal > maxW
                      THEN OverWriteUpdate(st.ow, <<tObj.id, atId>>, lenVal)
                      ELSE st.ow]
    ELSE [st EXCEPT !.d = Put(st.d, atId,
                                IF val # QMark /\ val # Dot
                                THEN Str(val) ELSE NullValue(tObj, atId))]

\* the mutant of the attribute loop: the try block encloses the loop, so the
\* first extraction that raises ends the row's extractions
RECURSIVE MapAttributesAbort(_, _, _, _, _, _)
MapAttributesAbort(tObj, cat, row, filterType, atIds, st) ==
    IF atIds = <<>> THEN st
    ELSE IF /\ tObj.map[Head(atIds)] \in Range(cat.attrs)
            /\ IndexOf(cat.attrs, tObj.map[Head(atIds)]) > Len(row)
         THEN st
    ELSE MapAttributesAbort(tObj, cat, row, filterType, Tail(atIds),
                            MapAttribute(tObj, cat, row, filterType, Head(atIds), st))

RECURSIVE MapAttributes(_, _, _, _, _, _)
MapAttributes(tObj, cat, row, filterType, atIds, st) ==
    IF atIds = <<>> THEN st
    ELSE MapAttributes(tObj, cat, row, filterType, Tail(atIds),
                       MapAttribute(tObj, cat, row, filterType, Head(atIds), st))

\* the mutant of the row initialisation: d = {} always
InitRowEmpty(tObj, filterType) == EmptyDict

\* d = {} and, without drop-empty-attributes, the null default of every
\* attribute of the table
InitRow(tObj, filterType) ==
    IF "drop-empty-attributes" \in filterType THEN EmptyDict
    ELSE [atId \in Range(tObj.attrs) |-> NullValue(tObj, atId)]

RECURSIVE MapCategoryRows(_, _, _, _, _, _)
MapCategoryRows(tObj, cat, categoryName, filterType, rows, acc) ==
    IF rows = <<>> THEN acc
    ELSE
    LET st == MapAttributes(tObj, cat, Head(rows), filterType,
                            tObj.catAttrs[categoryName],
                            [d |-> InitRow(tObj, filterType), ow |-> acc.ow])
    IN MapCategoryRows(tObj, cat, categoryName, filterType, Tail(rows),
                       [rows |-> Append(acc.rows, st.d), ow |-> st.ow])

MapInstanceCategory(tObj, categoryName, myContainer, filterType, ow) ==
    IF categoryName \notin DOMAIN myContainer.cats
    THEN [rows |-> <<>>, ow |-> ow]
    ELSE MapCategoryRows(tObj, myContainer.cats[categoryName], categoryName,
                         filterType, myContainer.cats[categoryName].rows,
                         [rows |-> <<>>, ow |-> ow])

(***************************************************************************)
(* __mapInstanceCategoryList: several categories merged into one table.    *)
(***************************************************************************)
\* the body of the loop over curAttributeIdList for one attribute id; a
\* missing column or a short row raises and the except clause skips it
MergeAttribute(tObj, cat, row, filterType, atId, d) ==
    LET atName == tObj.map[atId] IN
    IF atName \notin Range(cat.attrs) THEN d
    ELSE
    LET idx == IndexOf(cat.attrs, atName) IN
    IF idx > Len(row) THEN d
    ELSE
    LET val == row[idx]
        maxW == IF "skip-max-width" \in filterType THEN 0 ELSE tObj.width[atId]
    IN
    IF "drop-empty-attributes" \in filterType /\ IsEmptyValue(val) THEN d
    ELSE IF "assign-dates" \in filterType /\ atId \in tObj.date /\ ~IsEmptyValue(val)
         THEN Put(d, atId, AssignDateType(atId, val))
    ELSE IF "convert-iterables" \in filterType /\ atId \in tObj.iter /\ ~IsEmptyValue(val)
         THEN Put(d, atId, List(SplitStrip(val, tObj.sep[atId])))
    ELSE IF maxW > 0
         THEN Put(d, atId, IF val # QMark /\ val # Dot
                           THEN Str(Take(val, maxW)) ELSE NullValue(tObj, atId))
    ELSE Put(d, atId, IF val # QMark /\ val # Dot
                      THEN Str(val) ELSE NullValue(tObj, atId))

RECURSIVE MergeAttributes(_, _, _, _, _, _)
MergeAttributes(tObj, cat, row, filterType, atIds, d) ==
    IF atIds = <<>> THEN d
    ELSE MergeAttributes(tObj, cat, row, filterType, Tail(atIds),
                         MergeAttribute(tObj, cat, row, filterType, Head(atIds), d))

\* mK: the row's values of the merge index attributes; one that cannot be
\* read is left out of the key
RECURSIVE MergeKey(_, _, _)
MergeKey(cat, row, indL) ==
    IF indL = <<>> THEN <<>>
    ELSE LET rest == MergeKey(cat, row, Tail(indL)) IN
         IF Head(indL) \in Range(cat.attrs) /\ IndexOf(cat.attrs, Head(indL)) <= Len(row)
         THEN <<row[IndexOf(cat.attrs, Head(indL))]>> \o rest
         ELSE rest

\* the mutant of the update: the values the key's row already holds are kept
MergeKeepFirst(old, d) == old @@ d

\* mD[tk].update(d): every key of d, null defaults included, replaces the
\* value the key's row holds
MergeUpdate(old, d) == d @@ old

\* mD is the keys in insertion order and the row of each key
RECURSIVE MergeCategoryRows(_, _, _, _, _, _)
MergeCategoryRows(tObj, cat, categoryName, filterType, rows, mD) ==
    IF rows = <<>> THEN mD
    ELSE
    LET row == Head(rows)
        tk == MergeKey(cat, row, tObj.merge[categoryName])
        d == MergeAttributes(tObj, cat, row, filterType,
                             tObj.catAttrs[categoryName], InitRow(tObj, filterType))
        known == tk \in Range(mD.keys)
        old == IF known THEN mD.rows[tk] ELSE EmptyDict
    IN MergeCategoryRows(tObj, cat, categoryName, filterType, Tail(rows),
           [keys |-> IF known THEN mD.keys ELSE Append(mD.keys, tk),
            rows |-> Put(mD.rows, tk, MergeUpdate(old, d))])

RECURSIVE MergeCategories(_, _, _, _, _)
MergeCategories(tObj, categoryNameList, myContainer, filterType, mD) ==
    IF categoryNameList = <<>> THEN mD
    ELSE
    LET categoryName == Head(categoryNameList) IN
    MergeCategories(tObj, Tail(categoryNameList), myContainer, filterType,
        IF categoryName \notin DOMAIN myContainer.cats THEN mD
        ELSE MergeCategoryRows(tObj, myContainer.cats[categoryName], categoryName,
                               filterType, myContainer.cats[categoryName].rows, mD))

\* mD.values()
MapInstanceCategoryList(tObj, categoryNameList, myContainer, filterType) ==
    LET mD == MergeCategories(tObj, categoryNameList, myContainer, filterType,
                              [keys |-> <<>>, rows |-> EmptyDict])
    IN [i \in 1..Len(mD.keys) |-> mD.rows[mD.keys[i]]]

(***************************************************************************)
(* __mapData for one container, __evalMapFunction.                         *)
(***************************************************************************)
\* __evalMapFunction: datablockid() sets the container name in every row
EvalMapFunction(dataContainer, rowList, attributeId, functionName) ==
    IF functionName = "datablockid()"
    THEN [i \in 1..Len(rowList) |-> Put(rowList[i], attributeId, Str(dataContainer.name))]
    ELSE rowList

RECURSIVE EvalOtherAttributes(_, _, _, _)
EvalOtherAttributes(tObj, dataContainer, rowList, atIds) ==
    IF atIds = <<>> THEN rowList
    ELSE EvalOtherAttributes(tObj, dataContainer,
             EvalMapFunction(dataContainer, rowList, Head(atIds), tObj.fn[Head(atIds)]),
             Tail(atIds))

\* the local variable rowList of __mapData: not yet assigned, or the list
\* last assigned to it
Unbound == [bound |-> FALSE, rows |-> <<>>]

Bound(rows) == [bound |-> TRUE, rows |-> rows]

\* the body of the loop over tableIdList for one table id; st is the
\* tableDataDict, the object's width record, the local rowList and whether
\* the loop has raised.  rowList is assigned only for a table with mapped
\* categories: for a table without, the name still refers to the list of the
\* table before it, or to nothing (UnboundLocalError)
MapTable(myContainer, tableId, excludeD, filterType, st) ==
    IF st.raised \/ tableId \in excludeD THEN st
    ELSE
    LET tObj == GetTable(tableId)
        prev == IF tableId \in DOMAIN st.tdd THEN st.tdd[tableId] ELSE <<>>
        numMapCategories == Len(tObj.cats)
        single == IF numMapCategories = 1
                  THEN MapInstanceCategory(tObj, tObj.cats[1], myContainer, filterType, st.ow)
                  ELSE [rows |-> <<>>, ow |-> st.ow]
        rowList == IF numMapCategories = 1 THEN Bound(single.rows)
                   ELSE IF numMapCategories >= 1
                   THEN Bound(MapInstanceCategoryList(tObj, tObj.cats, myContainer, filterType))
                   ELSE st.rowList
    IN IF ~rowList.bound
       THEN [st EXCEPT !.tdd = Put(st.tdd, tableId, prev), !.raised = TRUE]
       ELSE LET filled == EvalOtherAttributes(tObj, myContainer, rowList.rows, tObj.other)
            IN [tdd |-> Put(st.tdd, tableId, prev \o filled),
                ow |-> single.ow,
                rowList |-> Bound(filled),
                raised |-> FALSE]

RECURSIVE MapTables(_, _, _, _, _)
MapTables(myContainer, tableIds, excludeD, filterType, st) ==
    IF tableIds = <<>> THEN st
    ELSE MapTables(myContainer, Tail(tableIds), excludeD, filterType,
                   MapTable(myContainer, Head(tableIds), excludeD, filterType, st))

\* the mutant of the drop-empty-tables step: no table is dropped
DropNoTable(tableDataDict, filterType) == tableDataDict

\* the drop-empty-tables step that ends __process
DropEmptyTables(tableDataDict, filterType) ==
    IF "drop-empty-tables" \in filterType
    THEN [k \in {t \in DOMAIN tableDataDict : Len(tableDataDict[t]) > 0} |-> tableDataDict[k]]
    ELSE tableDataDict

\* __mapData: every container of the list, every table of the schema
RECURSIVE MapData(_, _, _, _, _)
MapData(containerList, tableIdList, excludeD, filterType, st) ==
    IF containerList = <<>> THEN st
    ELSE MapData(Tail(containerList), tableIdList, excludeD, filterType,
                 MapTables(Head(containerList), tableIdList, excludeD, filterType, st))

\* the conditions of a content selector (self.__sD.getContentSelector)
GetContentSelector(cs) ==
    IF cs = "SEL_CS"
    THEN <<[TABLE_NAME |-> "cs", ATTRIBUTE_NAME |-> "val", VALUES |-> {<<"a", "b">>}]>>
    ELSE <<[TABLE_NAME |-> "ca", ATTRIBUTE_NAME |-> "a1", VALUES |-> {<<"k">>}],
           [TABLE_NAME |-> "ca", ATTRIBUTE_NAME |-> "a2", VALUES |-> {<<"x">>}]>>

\* the mutant of the condition: one row with an allowed value is enough
TestConditionAnyRow(container, csD) ==
    /\ csD.TABLE_NAME \in DOMAIN container.cats
    /\ LET catObj == container.cats[csD.TABLE_NAME] IN
        /\ csD.ATTRIBUTE_NAME \in Range(catObj.attrs)
        /\ \E ii \in 1..Len(catObj.rows) :
            LET col == IndexOf(catObj.attrs, csD.ATTRIBUTE_NAME) IN
            /\ col <= Len(catObj.rows[ii])
            /\ catObj.rows[ii][col] \in csD.VALUES

\* one condition csD on a container: getObj of a missing category returns
\* None and getValue of a missing attribute or of a short row raises, which
\* the except clause turns into False
TestCondition(container, csD) ==
    /\ csD.TABLE_NAME \in DOMAIN container.cats
    /\ LET catObj == container.cats[csD.TABLE_NAME] IN
        /\ Len(catObj.rows) >= 1
        /\ csD.ATTRIBUTE_NAME \in Range(catObj.attrs)
        /\ \A ii \in 1..Len(catObj.rows) :
            LET col == IndexOf(catObj.attrs, csD.ATTRIBUTE_NAME) IN
            /\ col <= Len(catObj.rows[ii])
            /\ catObj.rows[ii][col] \in csD.VALUES

\* __testContentSelectors
TestContentSelectors(container, contentSelectors) ==
    \A i \in 1..Len(contentSelectors) :
        LET csDL == GetContentSelector(contentSelectors[i]) IN
        \A j \in 1..Len(csDL) : TestCondition(container, csDL[j])

\* __process: the containers that pass the content selectors are mapped;
\* the mapping by table id, the names of all containers, the object's width
\* record afterwards and whether __mapData raised
ProcessTables(containerList, tableIdList, contentSelectors, excludeD, filterType, ow) ==
    LET cL == SelectSeq(containerList,
                        LAMBDA c : TestContentSelectors(c, contentSelectors))
        st == MapData(cL, tableIdList, excludeD, filterType,
                      [tdd |-> EmptyDict, ow |-> ow, rowList |-> Unbound, raised |-> FALSE])
    IN [tdd |-> DropEmptyTables(st.tdd, filterType),
        names |-> [i \in 1..Len(containerList) |-> containerList[i].name],
        ow |-> st.ow,
        raised |-> st.raised]

\* __process with contentSelectors=None on the schema of TS and TM
ProcessList(containerList, excludeD, filterType, ow) ==
    ProcessTables(containerList, TableIdList, <<>>, excludeD, filterType, ow)

(***************************************************************************)
(* The containers of the mapper runs.  A category is its attribute names   *)
(* in column order and its rows, each row the values in column order.      *)
(***************************************************************************)
\* rows of the category cs, columns val and dt
CsRowKinds ==
    {<<QMark, <<"D">>>>,
     <<<<"a", "b">>, <<"D">>>>,
     <<<<"a", "b", "c">>, <<"D">>>>,
     <<<<"a", "b">>, <<"D", ":", "T">>>>,
     <<<<"a", "b", "c", "d">>, <<"D", ":", "T">>>>}

\* the rows of cs in the runs of several workers: under, over and further
\* over the width of VAL
WorkerRowKinds ==
    {<<<<"a", "b">>, <<"D">>>>,
     <<<<"a", "b", "c">>, <<"D">>>>,
     <<<<"a", "b", "c", "d">>, <<"D">>>>}

\* the worker processes of a split run, each with its own SchemaDefDataPrep
Workers == {"w1", "w2", "w3"}

\* rows of the category ca, columns a1 and a2
CaRowKinds == {<<<<"k">>, <<"x">>>>, <<<<"m">>, <<"x">>>>, <<<<"k">>, <<"z">>>>}

\* rows of the category cb, columns a2 and a3
CbRowKinds == {<<<<"y">>, <<"k">>>>, <<<<"y">>, <<"m">>>>}

ContainerName == <<"d", "1">>

\* a container that holds the category cs with the given rows, or no
\* category when there is no row
CsContainer(rows) ==
    [name |-> ContainerName,
     cats |-> IF rows = <<>> THEN EmptyDict
              ELSE [cs |-> [attrs |-> <<"val", "dt">>, rows |-> rows]]]

\* a container that holds the categories ca and cb, each when it has rows
MergeContainer(rowsA, rowsB) ==
    [name |-> ContainerName,
     cats |-> (IF rowsA = <<>> THEN EmptyDict
               ELSE [ca |-> [attrs |-> <<"a1", "a2">>, rows |-> rowsA]])
              @@
              (IF rowsB = <<>> THEN EmptyDict
               ELSE [cb |-> [attrs |-> <<"a2", "a3">>, rows |-> rowsB]])]

SeqsUpTo(S, n) == UNION {[1..k -> S] : k \in 0..n}

CsContainers(kinds, maxRows) == {CsContainer(rows) : rows \in SeqsUpTo(kinds, maxRows)}

MergeContainers(maxRows) ==
    {MergeContainer(rowsA, rowsB) :
        <<rowsA, rowsB>> \in {p \in SeqsUpTo(CaRowKinds, maxRows) \X SeqsUpTo(CbRowKinds, maxRows) :
                                Len(p[1]) + Len(p[2]) <= maxRows}}

\* catObj.getRowList() of every category of the container
RowCount(c) ==
    LET n(cat) == IF cat \in DOMAIN c.cats THEN Len(c.cats[cat].rows) ELSE 0
    IN n("cs") + n("ca") + n("cb")

RECURSIVE RowCountList(_)
RowCountList(cl) == IF cl = <<>> THEN 0 ELSE RowCount(Head(cl)) + RowCountList(Tail(cl))

\* the container lists of at most maxLen containers and maxRows rows
RECURSIVE CsLists(_, _, _)
CsLists(kinds, maxLen, maxRows) ==
    IF maxLen = 0 THEN {<<>>}
    ELSE {<<>>} \cup
         UNION {{<<c>> \o rest : rest \in CsLists(kinds, maxLen - 1, maxRows - RowCount(c))} :
                   c \in CsContainers(kinds, maxRows)}

RECURSIVE MergeLists(_, _)
MergeLists(maxLen, maxRows) ==
    IF maxLen = 0 THEN {<<>>}
    ELSE {<<>>} \cup
         UNION {{<<c>> \o rest : rest \in MergeLists(maxLen - 1, maxRows - RowCount(c))} :
                   c \in MergeContainers(maxRows)}

\* containers whose categories lack a column or hold a row shorter than the
\* column list, one whose ca row overflows the width of A2, one with whole
\* rows of cs and ca, two whose dt is no date, with and without a colon, and
\* one whose cs row is too short for the column val, which precedes dt in the
\* mapped attributes, and one with two rows of cs that differ in val
SparseContainers ==
    {[name |-> ContainerName,
      cats |-> [cs |-> [attrs |-> <<"val">>, rows |-> <<<<<<"a", "b", "c">>>>>>]]],
     [name |-> ContainerName,
      cats |-> [cs |-> [attrs |-> <<"val", "dt">>, rows |-> <<<<<<"a", "b">>>>>>]]],
     [name |-> ContainerName,
      cats |-> [ca |-> [attrs |-> <<"a1">>, rows |-> <<<<<<"k">>>>>>],
                cb |-> [attrs |-> <<"a2", "a3">>, rows |-> <<<<<<"y">>, <<"k">>>>>>]]],
     [name |-> ContainerName,
      cats |-> [ca |-> [attrs |-> <<"a1", "a2">>, rows |-> <<<<<<"k">>>>>>]]],
     [name |-> ContainerName,
      cats |-> [ca |-> [attrs |-> <<"a1", "a2">>,
                        rows |-> <<<<<<"k">>, <<"x", "y", "z">>>>>>]]],
     [name |-> ContainerName,
      cats |-> [cs |-> [attrs |-> <<"val", "dt">>, rows |-> <<<<<<"a", "b", "c">>, <<"D">>>>>>],
                ca |-> [attrs |-> <<"a1", "a2">>, rows |-> <<<<<<"k">>, <<"x">>>>>>]]],
     [name |-> ContainerName,
      cats |-> [cs |-> [attrs |-> <<"val", "dt">>,
                        rows |-> <<<<<<"a", "b">>, <<"x", ":", "y">>>>>>]]],
     [name |-> ContainerName,
      cats |-> [cs |-> [attrs |-> <<"val", "dt">>, rows |-> <<<<<<"a", "b">>, <<"x">>>>>>]]],
     [name |-> ContainerName,
      cats |-> [cs |-> [attrs |-> <<"dt", "val">>, rows |-> <<<<<<"D">>>>>>]]],
     [name |-> ContainerName,
      cats |-> [cs |-> [attrs |-> <<"val", "dt">>,
                        rows |-> <<<<<<"a", "b">>, <<"D">>>>,
                                   <<<<"a", "b", "c">>, <<"D">>>>>>]]]}

\* the lists of at most maxLen of these containers with at most maxRows rows
SparseLists(maxLen, maxRows) ==
    {cl \in SeqsUpTo(SparseContainers, maxLen) : RowCountList(cl) <= maxRows}

\* the filter types of the runs
FilterTypes ==
    {{}, {"drop-empty-attributes"}, {"skip-max-width"}, {"assign-dates"},
     {"convert-iterables"}, {"drop-empty-tables"}}

\* the arguments of setTableIdExcludeList
ExcludeLists == {{}, {"TM"}}

(***************************************************************************)
(* Reshaping and slicing (SchemaDefReShape, SliceValues).                  *)
(*                                                                         *)
(* A table's value in a mapping is tagged with its python type: a list of  *)
(* row dicts, one row dict, a dict of columns, or the dict of attribute    *)
(* names and positional rows.  A call returns Ok(value) or raises.         *)
(***************************************************************************)
TList(rows) == [kind |-> "list", rows |-> rows]

TRow(row) == [kind |-> "row", row |-> row]

TCols(colD) == [kind |-> "cols", cols |-> colD]

TNoName(atNameList, rowList) == [kind |-> "no_name", attributes |-> atNameList, data |-> rowList]

Ok(value) == [status |-> "ok", value |-> value]

Raised(exception) == [status |-> "raised", value |-> exception]

\* the styleType arguments: the four named layouts, rowwise_by_id and a
\* string that is none of them
StyleTypes ==
    {"rowwise_by_name", "rowwise_by_name_with_cardinality", "columnwise_by_name",
     "rowwise_no_name", "rowwise_by_id", "by_something_else"}

(***************************************************************************)
(* The schema of the reshaping runs: ENTITY is the parent category of the  *)
(* slice ENTITY, POLY its child, ENTRY a table that can be a slice extra.  *)
(***************************************************************************)
SchemaIds == <<"ENTITY", "POLY", "ENTRY">>

\* self.__sD.getSchemaName(schemaId)
GetSchemaName(schemaId) ==
    [ENTITY |-> "entity", POLY |-> "entity_poly", ENTRY |-> "entry"][schemaId]

\* self.__sD.getAttributeIdList(schemaId)
GetAttributeIdList(schemaId) ==
    [ENTITY |-> <<"E_ID", "E_TYPE">>, POLY |-> <<"P_EID", "P_SEQ">>, ENTRY |-> <<"X_ID">>][schemaId]

\* schemaObj.getAttributeName(atId)
GetAttributeName(atId) ==
    [E_ID |-> "id", E_TYPE |-> "type", P_EID |-> "entity_id", P_SEQ |-> "seq", X_ID |-> "id"][atId]

\* self.__sD.getAttributeNameList(schemaId)
GetAttributeNameList(schemaId) ==
    LET ids == GetAttributeIdList(schemaId) IN [i \in 1..Len(ids) |-> GetAttributeName(ids[i])]

\* the parent items of the slice filter
ParentEntity == [CATEGORY |-> "ENTITY", ATTRIBUTE |-> "E_ID"]

ParentEntry == [CATEGORY |-> "ENTRY", ATTRIBUTE |-> "X_ID"]

\* the key (catId, atId) of a parent item
ParentKey(sp) == <<sp.CATEGORY, sp.ATTRIBUTE>>

\* the slice index of the filter: ENTITY and POLY are sliced by the entity id
SliceIndexEntity ==
    [ENTITY |-> (ParentKey(ParentEntity) :> <<"E_ID">>),
     POLY |-> (ParentKey(ParentEntity) :> <<"P_EID">>)]

\* a parent filter: only polymer entities are parents
FilterPolymer == [CATEGORY |-> "ENTITY", ATTRIBUTE |-> "E_TYPE", VALUES |-> {"polymer"}]

\* the schema definitions of the runs: the slice filter's parent items
\* (getSliceParentItems), parent filters (getSliceParentFilters), slice index
\* (getSliceIndex), slice extras (getSliceExtraSchemaIds, isSliceExtra), and
\* the tables with unit cardinality (hasUnitCardinality), with unit
\* cardinality in the slice (hasSliceUnitCardinality) and mandatory ones
\* (isMandatory)
SchemaDefs ==
    {[parentItems |-> <<ParentEntity>>, parentFilters |-> <<>>,
      sliceIndex |-> SliceIndexEntity, extraIds |-> <<"ENTRY">>,
      unit |-> {}, sliceUnit |-> {}, mandatory |-> {}],
     [parentItems |-> <<ParentEntity>>, parentFilters |-> <<>>,
      sliceIndex |-> SliceIndexEntity, extraIds |-> <<"ENTRY">>,
      unit |-> {"POLY", "ENTRY"}, sliceUnit |-> {"POLY", "ENTRY"}, mandatory |-> {}],
     [parentItems |-> <<ParentEntity>>, parentFilters |-> <<FilterPolymer>>,
      sliceIndex |-> SliceIndexEntity, extraIds |-> <<"ENTRY">>,
      unit |-> {"ENTRY"}, sliceUnit |-> {}, mandatory |-> {}],
     [parentItems |-> <<ParentEntity, ParentEntry>>, parentFilters |-> <<>>,
      sliceIndex |-> SliceIndexEntity, extraIds |-> <<"ENTRY">>,
      unit |-> {}, sliceUnit |-> {}, mandatory |-> {}],
     [parentItems |-> <<ParentEntity>>, parentFilters |-> <<>>,
      sliceIndex |-> SliceIndexEntity, extraIds |-> <<>>,
      unit |-> {"POLY"}, sliceUnit |-> {}, mandatory |-> {"POLY"}]}

\* oRowD: the row with attribute names in place of attribute ids
RenameRow(iRowD) ==
    [atName \in {GetAttributeName(atId) : atId \in DOMAIN iRowD} |->
        iRowD[CHOOSE atId \in DOMAIN iRowD : GetAttributeName(atId) = atName]]

\* oRowDList of all rows
RenameRows(iRowDList) == [i \in 1..Len(iRowDList) |-> RenameRow(iRowDList[i])]

(***************************************************************************)
(* SliceValues: the enumeration of the parent value combinations.          *)
(***************************************************************************)
\* SliceValues.__testFilter
TestFilter(rowD, catId, filters) ==
    \A i \in 1..Len(filters) :
        /\ catId = filters[i].CATEGORY
        /\ filters[i].ATTRIBUTE \in DOMAIN rowD
        /\ rowD[filters[i].ATTRIBUTE] \in filters[i].VALUES

\* vals of one parent item: ((catId, atId), value) of every row of the
\* category that passes the parent filters
ParentVals(schemaDataDictById, sp, spfL) ==
    IF sp.CATEGORY \in DOMAIN schemaDataDictById
    THEN LET passing == SelectSeq(schemaDataDictById[sp.CATEGORY].rows,
                                   LAMBDA rowD : TestFilter(rowD, sp.CATEGORY, spfL))
         IN [i \in 1..Len(passing) |-> <<ParentKey(sp), passing[i][sp.ATTRIBUTE]>>]
    ELSE <<>>

\* itertools.product(*valueL)
RECURSIVE Product(_)
Product(valueL) ==
    IF valueL = <<>> THEN <<<<>>>>
    ELSE LET rest == Product(Tail(valueL))
             RECURSIVE Rows(_)
             Rows(vL) ==
                IF vL = <<>> THEN <<>>
                ELSE [i \in 1..Len(rest) |-> <<Head(vL)>> \o rest[i]] \o Rows(Tail(vL))
         IN Rows(Head(valueL))

\* a row that passes the filters and lacks the parent attribute makes
\* rowD[atId] raise in the constructor
SliceValuesRaises(schemaDataDictById, sD) ==
    \E i \in 1..Len(sD.parentItems) :
        LET sp == sD.parentItems[i] IN
        /\ sp.CATEGORY \in DOMAIN schemaDataDictById
        /\ \E rowD \in Range(schemaDataDictById[sp.CATEGORY].rows) :
            TestFilter(rowD, sp.CATEGORY, sD.parentFilters) /\ sp.ATTRIBUTE \notin DOMAIN rowD

\* SliceValues(...).data
SliceValuesData(schemaDataDictById, sD) ==
    Product([i \in 1..Len(sD.parentItems) |->
                ParentVals(schemaDataDictById, sD.parentItems[i], sD.parentFilters)])

(***************************************************************************)
(* SchemaDefReShape.applyShape and SchemaDefDataPrep.__transformTableData. *)
(***************************************************************************)
\* the schema id of a table name of the mapping
IdOfName(schemaDataDictById, schemaObjName) ==
    CHOOSE schemaId \in DOMAIN schemaDataDictById : GetSchemaName(schemaId) = schemaObjName

\* the names of the tables of the mapping
NamesOf(schemaDataDictById) == {GetSchemaName(schemaId) : schemaId \in DOMAIN schemaDataDictById}

\* the mutant of the columns: a row without the attribute contributes an
\* empty string, so every column is as long as the table
ColumnsPadded(iRowDList) ==
    LET oRowDList == RenameRows(iRowDList) IN
    [atName \in UNION {DOMAIN oRowDList[i] : i \in 1..Len(oRowDList)} |->
        [i \in 1..Len(oRowDList) |->
            IF atName \in DOMAIN oRowDList[i] THEN oRowDList[i][atName] ELSE ""]]

\* colD: per attribute name the values of the rows that hold it, in row order
Columns(iRowDList) ==
    LET oRowDList == RenameRows(iRowDList) IN
    [atName \in UNION {DOMAIN oRowDList[i] : i \in 1..Len(oRowDList)} |->
        LET holding == SelectSeq(oRowDList, LAMBDA oRowD : atName \in DOMAIN oRowD)
        IN [i \in 1..Len(holding) |-> holding[i][atName]]]

\* oRowL.append(iRowD[atId]) raises KeyError for a row without the attribute
NoNameRaises(schemaId, iRowDList) ==
    \E iRowD \in Range(iRowDList) :
        \E atId \in Range(GetAttributeIdList(schemaId)) : atId \notin DOMAIN iRowD

\* oRowList of positional rows
NoNameRows(schemaId, iRowDList) ==
    LET atIdList == GetAttributeIdList(schemaId) IN
    [i \in 1..Len(iRowDList) |-> [j \in 1..Len(atIdList) |-> iRowDList[i][atIdList[j]]]]

ShapeRowwiseByName(schemaDataDictById) ==
    Ok([schemaObjName \in NamesOf(schemaDataDictById) |->
        TList(RenameRows(schemaDataDictById[IdOfName(schemaDataDictById, schemaObjName)].rows))])

\* the mutant of the collapse rule: every table with exactly one row collapses
CollapseAnySingle(unitCard, rowCount) == rowCount = 1

\* unitCard and len(iRowDList) == 1
CollapseUnitCard(unitCard, rowCount) == unitCard /\ rowCount = 1

ShapeRowwiseByNameWithCard(schemaDataDictById, sD) ==
    Ok([schemaObjName \in NamesOf(schemaDataDictById) |->
        LET schemaId == IdOfName(schemaDataDictById, schemaObjName)
            iRowDList == schemaDataDictById[schemaId].rows
        IN IF CollapseUnitCard(schemaId \in sD.unit, Len(iRowDList))
           THEN TRow(RenameRow(iRowDList[1]))
           ELSE TList(RenameRows(iRowDList))])

ShapeColumnwise(schemaDataDictById) ==
    Ok([schemaObjName \in NamesOf(schemaDataDictById) |->
        TCols(Columns(schemaDataDictById[IdOfName(schemaDataDictById, schemaObjName)].rows))])

ShapeRowwiseNoName(schemaDataDictById) ==
    IF \E schemaId \in DOMAIN schemaDataDictById :
            NoNameRaises(schemaId, schemaDataDictById[schemaId].rows)
    THEN Raised("KeyError")
    ELSE Ok([schemaObjName \in NamesOf(schemaDataDictById) |->
            LET schemaId == IdOfName(schemaDataDictById, schemaObjName) IN
            TNoName(GetAttributeNameList(schemaId),
                    NoNameRows(schemaId, schemaDataDictById[schemaId].rows))])

\* the mutant of the handler: rD keeps the {} it was initialised with
ExceptKeepsEmpty(shaped, schemaDataDictById) ==
    IF shaped.status = "raised" THEN EmptyDict ELSE shaped.value

\* except Exception: rD = schemaDataDictById
ExceptOriginal(shaped, schemaDataDictById) ==
    IF shaped.status = "raised" THEN schemaDataDictById ELSE shaped.value

\* the mutant of the dispatch: rowwise_by_id and a style that is none of the
\* named layouts are reshaped as rowwise_by_name
ReshapeDefaultByName(schemaDataDictById, sD, styleType) ==
    CASE styleType = "rowwise_by_name_with_cardinality" ->
            ExceptOriginal(ShapeRowwiseByNameWithCard(schemaDataDictById, sD), schemaDataDictById)
      [] styleType = "columnwise_by_name" ->
            ExceptOriginal(ShapeColumnwise(schemaDataDictById), schemaDataDictById)
      [] styleType = "rowwise_no_name" ->
            ExceptOriginal(ShapeRowwiseNoName(schemaDataDictById), schemaDataDictById)
      [] OTHER -> ExceptOriginal(ShapeRowwiseByName(schemaDataDictById), schemaDataDictById)

ReshapeSchemaData(schemaDataDictById, sD, styleType) ==
    CASE styleType = "rowwise_by_name" ->
            ExceptOriginal(ShapeRowwiseByName(schemaDataDictById), schemaDataDictById)
      [] styleType = "rowwise_by_name_with_cardinality" ->
            ExceptOriginal(ShapeRowwiseByNameWithCard(schemaDataDictById, sD), schemaDataDictById)
      [] styleType = "columnwise_by_name" ->
            ExceptOriginal(ShapeColumnwise(schemaDataDictById), schemaDataDictById)
      [] styleType = "rowwise_no_name" ->
            ExceptOriginal(ShapeRowwiseNoName(schemaDataDictById), schemaDataDictById)
      [] styleType = "rowwise_by_id" -> schemaDataDictById
      [] OTHER -> schemaDataDictById

\* SchemaDefDataPrep.__transformTableData: the branch of every style
TransformRowwiseByName(tableDataDictById) ==
    Ok([tableName \in NamesOf(tableDataDictById) |->
        TList(RenameRows(tableDataDictById[IdOfName(tableDataDictById, tableName)].rows))])

TransformRowwiseByNameWithCard(tableDataDictById, sD) ==
    Ok([tableName \in NamesOf(tableDataDictById) |->
        LET tableId == IdOfName(tableDataDictById, tableName)
            unitCard == tableId \in sD.unit
            iRowDList == tableDataDictById[tableId].rows
        IN IF CollapseUnitCard(unitCard, Len(iRowDList))
           THEN TRow(RenameRow(iRowDList[1]))
           ELSE TList(RenameRows(iRowDList))])

TransformColumnwise(tableDataDictById) ==
    Ok([tableName \in NamesOf(tableDataDictById) |->
        TCols(Columns(tableDataDictById[IdOfName(tableDataDictById, tableName)].rows))])

TransformRowwiseNoName(tableDataDictById) ==
    IF \E tableId \in DOMAIN tableDataDictById :
            NoNameRaises(tableId, tableDataDictById[tableId].rows)
    THEN Raised("KeyError")
    ELSE Ok([tableName \in NamesOf(tableDataDictById) |->
            LET tableId == IdOfName(tableDataDictById, tableName) IN
            TNoName(GetAttributeNameList(tableId),
                    NoNameRows(tableId, tableDataDictById[tableId].rows))])

TransformTableData(tableDataDictById, sD, styleType) ==
    CASE styleType = "rowwise_by_name" ->
            ExceptOriginal(TransformRowwiseByName(tableDataDictById), tableDataDictById)
      [] styleType = "rowwise_by_name_with_cardinality" ->
            ExceptOriginal(TransformRowwiseByNameWithCard(tableDataDictById, sD), tableDataDictById)
      [] styleType = "columnwise_by_name" ->
            ExceptOriginal(TransformColumnwise(tableDataDictById), tableDataDictById)
      [] styleType = "rowwise_no_name" ->
            ExceptOriginal(TransformRowwiseNoName(tableDataDictById), tableDataDictById)
      [] styleType = "rowwise_by_id" -> tableDataDictById
      [] OTHER -> tableDataDictById

(***************************************************************************)
(* SchemaDefReShape.applySlicedShape: the per-combination slicers.         *)
(***************************************************************************)
\* schemaObj.isSliceExtra(sliceFilter)
IsSliceExtra(schemaId, sD) == schemaId \in Range(sD.extraIds)

\* SchemaDefReShape.__inSlice
InSlice(schemaId, sliceIndex, rowD, parentVals) ==
    /\ schemaId \in DOMAIN sliceIndex
    /\ \A i \in 1..Len(parentVals) :
        LET parentVal == parentVals[i] IN
        /\ parentVal[1] \in DOMAIN sliceIndex[schemaId]
        /\ \E cAtId \in Range(sliceIndex[schemaId][parentVal[1]]) :
            cAtId \in DOMAIN rowD /\ rowD[cAtId] = parentVal[2]

\* the mutant of the row test: a slice-extra table is tested like a sliced one
SliceRowsInSliceOnly(schemaId, schemaDataDictById, sD, sliceValues) ==
    SelectSeq(schemaDataDictById[schemaId].rows,
              LAMBDA iRowD : InSlice(schemaId, sD.sliceIndex, iRowD, sliceValues))

\* the rows of a table kept for one combination, by attribute id
SliceRows(schemaId, schemaDataDictById, sD, sliceValues) ==
    SelectSeq(schemaDataDictById[schemaId].rows,
              LAMBDA iRowD : IsSliceExtra(schemaId, sD)
                             \/ InSlice(schemaId, sD.sliceIndex, iRowD, sliceValues))

\* the tables a slicer looks at: in the slice index or slice extras
SliceSchemaIds(schemaDataDictById, sD) ==
    {schemaId \in DOMAIN schemaDataDictById :
        schemaId \in DOMAIN sD.sliceIndex \/ IsSliceExtra(schemaId, sD)}

\* the mutant of the kept tables: a mandatory table without rows is left out
SliceKeptNonEmpty(schemaDataDictById, sD, sliceValues) ==
    {schemaId \in SliceSchemaIds(schemaDataDictById, sD) :
        Len(SliceRows(schemaId, schemaDataDictById, sD, sliceValues)) >= 1}

\* the tables a row-wise slicer puts into rD: the kept rows are not empty or
\* the table is mandatory
SliceKeptIds(schemaDataDictById, sD, sliceValues) ==
    {schemaId \in SliceSchemaIds(schemaDataDictById, sD) :
        Len(SliceRows(schemaId, schemaDataDictById, sD, sliceValues)) >= 1
        \/ schemaId \in sD.mandatory}

SliceRowwiseByName(schemaDataDictById, sD, sliceValues) ==
    LET kept == SliceKeptIds(schemaDataDictById, sD, sliceValues) IN
    Ok([schemaObjName \in {GetSchemaName(schemaId) : schemaId \in kept} |->
        TList(RenameRows(SliceRows(IdOfName(schemaDataDictById, schemaObjName),
                                   schemaDataDictById, sD, sliceValues)))])

SliceRowwiseByNameWithCard(schemaDataDictById, sD, sliceValues) ==
    LET kept == SliceKeptIds(schemaDataDictById, sD, sliceValues) IN
    Ok([schemaObjName \in {GetSchemaName(schemaId) : schemaId \in kept} |->
        LET schemaId == IdOfName(schemaDataDictById, schemaObjName)
            oRowDList == RenameRows(SliceRows(schemaId, schemaDataDictById, sD, sliceValues))
        IN IF schemaId \in sD.sliceUnit /\ Len(oRowDList) = 1
           THEN TRow(oRowDList[1])
           ELSE TList(oRowDList)])

SliceColumnwise(schemaDataDictById, sD, sliceValues) ==
    LET ColD(schemaId) == Columns(SliceRows(schemaId, schemaDataDictById, sD, sliceValues))
        kept == {schemaId \in SliceSchemaIds(schemaDataDictById, sD) :
                    DOMAIN ColD(schemaId) # {} \/ schemaId \in sD.mandatory}
    IN Ok([schemaObjName \in {GetSchemaName(schemaId) : schemaId \in kept} |->
            TCols(ColD(IdOfName(schemaDataDictById, schemaObjName)))])

ReshapeSlicedSchemaData(schemaDataDictById, sD, sliceValues, styleType) ==
    CASE styleType = "rowwise_by_name" ->
            ExceptOriginal(SliceRowwiseByName(schemaDataDictById, sD, sliceValues),
                           schemaDataDictById)
      [] styleType = "rowwise_by_name_with_cardinality" ->
            ExceptOriginal(SliceRowwiseByNameWithCard(schemaDataDictById, sD, sliceValues),
                           schemaDataDictById)
      [] styleType = "columnwise_by_name" ->
            ExceptOriginal(SliceColumnwise(schemaDataDictById, sD, sliceValues),
                           schemaDataDictById)
      [] styleType = "rowwise_no_name" ->
            ExceptOriginal(ShapeRowwiseNoName(schemaDataDictById), schemaDataDictById)
      [] styleType = "rowwise_by_id" -> schemaDataDictById
      [] OTHER -> schemaDataDictById

(***************************************************************************)
(* SchemaDefReShape.__sliceRowwiseByNameWithCardOnePass.                    *)
(***************************************************************************)
\* the elements of a sequence without repetitions, in order of first occurrence
RECURSIVE Distinct(_)
Distinct(seq) ==
    IF seq = <<>> THEN <<>>
    ELSE LET front == Distinct(SubSeq(seq, 1, Len(seq) - 1))
             last == seq[Len(seq)]
         IN IF last \in Range(front) THEN front ELSE Append(front, last)

\* pVals: the values of all combinations, in order
RECURSIVE PVals(_)
PVals(sliceValues) ==
    IF sliceValues = <<>> THEN <<>>
    ELSE [i \in 1..Len(Head(sliceValues)) |-> Head(sliceValues)[i][2]] \o PVals(Tail(sliceValues))

\* the keys of retD = {k: {} for k in pVals}, in insertion order
RetKeys(sliceValues) == Distinct(PVals(sliceValues))

\* the tables of singleKeyAtD: in the slice index, in the mapping, and
\* listing a parent item of the first combination
SingleKeyIds(schemaDataDictById, sD, pvTupL) ==
    {schemaId \in DOMAIN sD.sliceIndex :
        /\ schemaId \in DOMAIN schemaDataDictById
        /\ \E i \in 1..Len(pvTupL) : pvTupL[i][1] \in DOMAIN sD.sliceIndex[schemaId]}

\* singleKeyAtD[schemaId]: the child attributes of the parent items of the
\* first combination, concatenated
RECURSIVE SingleKeyAtL(_, _, _)
SingleKeyAtL(schemaId, sD, pvTupL) ==
    IF pvTupL = <<>> THEN <<>>
    ELSE (IF Head(pvTupL)[1] \in DOMAIN sD.sliceIndex[schemaId]
          THEN sD.sliceIndex[schemaId][Head(pvTupL)[1]] ELSE <<>>)
         \o SingleKeyAtL(schemaId, sD, Tail(pvTupL))

\* the values rv of rvS that pass "if rv": None (the attribute is missing)
\* and the empty string do not
RowValues(iRowD, atL) == {iRowD[at] : at \in Range(atL) \cap DOMAIN iRowD} \ {""}

\* rD of the slice extras: empty tables that are not mandatory are left out
ExtraRD(schemaDataDictById, sD) ==
    LET kept == {schemaId \in Range(sD.extraIds) :
                    Len(schemaDataDictById[schemaId].rows) >= 1 \/ schemaId \in sD.mandatory}
    IN [schemaObjName \in {GetSchemaName(schemaId) : schemaId \in kept} |->
        LET schemaId == IdOfName(schemaDataDictById, schemaObjName)
            oRowDList == RenameRows(schemaDataDictById[schemaId].rows)
        IN IF schemaId \in sD.sliceUnit /\ Len(oRowDList) = 1
           THEN TRow(oRowDList[1])
           ELSE TList(oRowDList)]

\* retD[pv] after the loop over singleKeyAtD: the copy of rD, and per sliced
\* table the rows that hold pv (the last of them for a unit-cardinality table)
OnePassPartition(schemaDataDictById, sD, pvTupL, pv) ==
    LET Holding(schemaId) ==
            SelectSeq(schemaDataDictById[schemaId].rows,
                      LAMBDA iRowD : pv \in RowValues(iRowD, SingleKeyAtL(schemaId, sD, pvTupL)))
        filled == {schemaId \in SingleKeyIds(schemaDataDictById, sD, pvTupL) :
                        Len(Holding(schemaId)) >= 1}
        sliced == [schemaObjName \in {GetSchemaName(schemaId) : schemaId \in filled} |->
                    LET schemaId == IdOfName(schemaDataDictById, schemaObjName)
                        oRowDList == RenameRows(Holding(schemaId))
                    IN IF schemaId \in sD.sliceUnit
                       THEN TRow(oRowDList[Len(oRowDList)])
                       ELSE TList(oRowDList)]
    IN sliced @@ (IF sD.extraIds # <<>> THEN ExtraRD(schemaDataDictById, sD) ELSE EmptyDict)

\* retD[rv] raises KeyError for a row value that is no parent value
OnePassUnmatched(schemaDataDictById, sD, pvTupL, keys) ==
    \E schemaId \in SingleKeyIds(schemaDataDictById, sD, pvTupL) :
        \E iRowD \in Range(schemaDataDictById[schemaId].rows) :
            \E rv \in RowValues(iRowD, SingleKeyAtL(schemaId, sD, pvTupL)) : rv \notin Range(keys)

\* the tables for which the one-pass partitioner logs "Unsupported slice
\* complexity": sfAtD[schemaId] is set to {} for every parent key pvTup of
\* the first combination and then receives at most that one key
SliceComplexityErrors(schemaDataDictById, sD, pvTupL) ==
    {schemaId \in DOMAIN sD.sliceIndex :
        \E i \in 1..Len(pvTupL) :
            LET sfAtD == IF schemaId \in DOMAIN schemaDataDictById
                            /\ pvTupL[i][1] \in DOMAIN sD.sliceIndex[schemaId]
                         THEN {pvTupL[i][1]} ELSE {}
            IN Cardinality(sfAtD) > 1}

SliceRowwiseByNameWithCardOnePass(schemaDataDictById, sD) ==
    LET sliceValues == SliceValuesData(schemaDataDictById, sD)
        keys == RetKeys(sliceValues)
    IN IF sliceValues = <<>> THEN Raised("StopIteration")
       ELSE IF \E schemaId \in Range(sD.extraIds) : schemaId \notin DOMAIN schemaDataDictById
       THEN Raised("KeyError")
       ELSE IF OnePassUnmatched(schemaDataDictById, sD, sliceValues[1], keys)
       THEN Raised("KeyError")
       ELSE Ok([i \in 1..Len(keys) |->
                    OnePassPartition(schemaDataDictById, sD, sliceValues[1], keys[i])])

\* SchemaDefReShape.applySlicedShape; sliceFilter is TRUE for the slice
\* filter of sD and FALSE for None
ApplySlicedShape(schemaDataDictById, sD, styleType, sliceFilter) ==
    IF sliceFilter
    THEN IF SliceValuesRaises(schemaDataDictById, sD) THEN Raised("KeyError")
         ELSE IF styleType = "rowwise_by_name_with_cardinality"
         THEN SliceRowwiseByNameWithCardOnePass(schemaDataDictById, sD)
         ELSE LET sliceValues == SliceValuesData(schemaDataDictById, sD) IN
              Ok([ii \in 1..Len(sliceValues) |->
                    ReshapeSlicedSchemaData(schemaDataDictById, sD, sliceValues[ii], styleType)])
    ELSE Ok(<<ReshapeSchemaData(schemaDataDictById, sD, styleType)>>)

\* SchemaDefReShape.applyShape
ApplyShape(schemaDataDictById, sD, styleType) ==
    Ok(ReshapeSchemaData(schemaDataDictById, sD, styleType))

(***************************************************************************)
(* RepoHoldingsDataPrep.getHoldingsUpdate: the update-list files, one per   *)
(* update type and content type, each a list of entry ids, one per line.    *)
(***************************************************************************)
MaxLines == 3

UpdateId == "2018_32"

EntryIds == {"1ABC", "2XYZ"}

updateTypeList == <<"added", "modified", "obsolete">>

contentTypeList == <<"entries", "mr", "cs", "sf">>

contentNameD ==
    ("entries" :> "coordinates") @@ ("mr" :> "NMR restraints") @@
    ("cs" :> "NMR chemical shifts") @@ ("sf" :> "structure factors")

\* the lines of all update-list files: the file each line is in and its entry id
UpdateLines ==
    [updateType : Range(updateTypeList), contentType : Range(contentTypeList),
     entryId : EntryIds]

\* what doImport(fp, 'list') returns for each file holding the lines
UpdateListFiles(lines) ==
    [updateType \in Range(updateTypeList) |->
        [contentType \in Range(contentTypeList) |->
            LET own == SelectSeq(lines, LAMBDA l : /\ l.updateType = updateType
                                                   /\ l.contentType = contentType) IN
            [i \in 1..Len(own) |-> own[i].entryId]]]

\* the dict uD as the ids in insertion order and the list held for each id
EmptyUD == [order |-> <<>>, types |-> EmptyDict]

\* the loop over the entry ids of one file
RECURSIVE CollectEntryIds(_, _, _)
CollectEntryIds(entryIdL, contentType, uD) ==
    IF entryIdL = <<>> THEN uD
    ELSE LET entryId == Head(entryIdL)
             made == IF entryId \in DOMAIN uD.types THEN uD
                     ELSE [order |-> Append(uD.order, entryId),
                           types |-> uD.types @@ (entryId :> <<>>)]
         IN CollectEntryIds(Tail(entryIdL), contentType,
                [made EXCEPT !.types[entryId] = Append(@, contentNameD[contentType])])

\* the loop over the content types of one update type: uD is assigned a new
\* dict in every iteration, after the file is read
RECURSIVE ContentTypeLoop(_, _, _)
ContentTypeLoop(filesOfType, contentTypes, uD) ==
    IF contentTypes = <<>> THEN uD
    ELSE ContentTypeLoop(filesOfType, Tail(contentTypes),
            CollectEntryIds(filesOfType[Head(contentTypes)], Head(contentTypes), EmptyUD))

\* the records appended for one update type
UpdateRecords(updateId, updateType, uD) ==
    [i \in 1..Len(uD.order) |->
        [update_id |-> updateId,
         entry_id |-> uD.order[i],
         update_type |-> IF updateType = "obsolete" THEN "removed" ELSE updateType,
         repository_content_types |-> uD.types[uD.order[i]]]]

RECURSIVE UpdateTypeLoop(_, _, _, _)
UpdateTypeLoop(updateId, files, updateTypes, records) ==
    IF updateTypes = <<>> THEN records
    ELSE UpdateTypeLoop(updateId, files, Tail(updateTypes),
            records \o UpdateRecords(updateId, Head(updateTypes),
                            ContentTypeLoop(files[Head(updateTypes)], contentTypeList, EmptyUD)))

GetHoldingsUpdate(updateId, files) == UpdateTypeLoop(updateId, files, updateTypeList, <<>>)

(***************************************************************************)
(* State.                                                                  *)
(***************************************************************************)
VARIABLES
    filterType,         \* the filterType the caller passes to the object's calls
    tableIdExcludeD,    \* SchemaDefDataPrep.__tableIdExcludeD
    overWrite,          \* SchemaDefDataPrep.__overWrite
    tableDataDict,      \* the mapping by table id the last process() call returned
    containerNameList,  \* the container names the last process() call returned
    history,            \* the container lists of the calls so far, one per call
    tableIdList,        \* self.__sD.getTableIdList()
    contentSelectors,   \* the contentSelectors the caller passes to the object's calls
    processRaised,      \* the last process() call raised
    wList,              \* split run: the whole container list
    wAssign,            \* split run: the worker of each container of the list
    wOver,              \* split run: __overWrite of each worker's object
    wRan,               \* split run: the workers that have mapped their sublist
    seqOver,            \* split run: __overWrite of the object that maps the whole list
    seqRan,             \* split run: the whole list has been mapped by one object
    schemaDef,          \* reshaping: the schema definition self.__sD answers from
    schemaDataDictById, \* reshaping: the mapping by id handed to the calls
    call,               \* reshaping: the last call and its arguments
    result,             \* reshaping: what the last call returned or raised
    partRefs,           \* returned objects: per partition and table name the object held
    heapLists,          \* returned objects: the row objects of every list object
    heapRows,           \* returned objects: the content of every row object
    mutated,            \* returned objects: the partition the caller has mutated, or 0
    updateLists,        \* holdings: the entry ids of each update-list file
    retL,               \* holdings: what the last getHoldingsUpdate() call returned
    holdingsCalled      \* holdings: getHoldingsUpdate() has been called

mapVars ==
    <<filterType, tableIdExcludeD, overWrite, tableDataDict, containerNameList, history,
      tableIdList, contentSelectors, processRaised>>

workerVars == <<wList, wAssign, wOver, wRan, seqOver, seqRan>>

shapeVars == <<schemaDef, schemaDataDictById, call, result>>

heapVars == <<partRefs, heapLists, heapRows, mutated>>

holdingsVars == <<updateLists, retL, holdingsCalled>>

vars == <<mapVars, workerVars, shapeVars, heapVars, holdingsVars>>

\* no update-list files read
HoldingsIdle ==
    /\ updateLists = UpdateListFiles(<<>>)
    /\ retL = <<>>
    /\ holdingsCalled = FALSE

\* no objects returned by a slicing call
HeapIdle ==
    /\ partRefs = <<>>
    /\ heapLists = EmptyDict
    /\ heapRows = EmptyDict
    /\ mutated = 0

\* no reshaping
ShapeIdle ==
    /\ schemaDef = EmptyDict
    /\ schemaDataDictById = EmptyDict
    /\ call = [op |-> "none", styleType |-> "none", sliceFilter |-> FALSE]
    /\ result = Ok(EmptyDict)
    /\ HeapIdle

\* no split run
WorkersIdle ==
    /\ wList = <<>>
    /\ wAssign = <<>>
    /\ wOver = [w \in Workers |-> EmptyDict]
    /\ wRan = {}
    /\ seqOver = EmptyDict
    /\ seqRan = FALSE

\* no calls on the single mapper object
MapIdle ==
    /\ overWrite = EmptyDict
    /\ tableDataDict = EmptyDict
    /\ containerNameList = <<>>
    /\ history = <<>>
    /\ tableIdList = TableIdList
    /\ contentSelectors = <<>>
    /\ processRaised = FALSE

RECURSIVE Flatten(_)
Flatten(ll) == IF ll = <<>> THEN <<>> ELSE Head(ll) \o Flatten(Tail(ll))

(***************************************************************************)
(* The mapper: construction, then process() calls.                         *)
(***************************************************************************)
InitMap ==
    /\ filterType \in FilterTypes
    /\ tableIdExcludeD \in ExcludeLists
    /\ MapIdle
    /\ WorkersIdle
    /\ ShapeIdle
    /\ HoldingsIdle

\* process(containerList, styleType="rowwise_by_id", filterType,
\* contentSelectors); a call that raises returns nothing and leaves the
\* width record as the mapper had updated it
Process(containerList) ==
    /\ Len(history) < MaxCalls
    /\ LET r == ProcessTables(containerList, tableIdList, contentSelectors,
                              tableIdExcludeD, filterType, overWrite) IN
        /\ overWrite' = r.ow
        /\ tableDataDict' = IF r.raised THEN EmptyDict ELSE r.tdd
        /\ containerNameList' = IF r.raised THEN <<>> ELSE r.names
        /\ processRaised' = r.raised
    /\ history' = Append(history, containerList)
    /\ UNCHANGED <<filterType, tableIdExcludeD, tableIdList, contentSelectors,
                   workerVars, shapeVars, heapVars, holdingsVars>>

RowsLeft == MaxRows - RowCountList(Flatten(history))

ContainersLeft == MaxContainers - Len(Flatten(history))

ProcessSingle == \E cl \in CsLists(CsRowKinds, ContainersLeft, RowsLeft) : Process(cl)

ProcessMerged == \E cl \in MergeLists(ContainersLeft, RowsLeft) : Process(cl)

NextMap == ProcessSingle

SpecMap == InitMap /\ [][NextMap]_vars

ProcessSparse == \E cl \in SparseLists(ContainersLeft, RowsLeft) : Process(cl)

NextSparse == ProcessSparse

SpecSparse == InitMap /\ [][NextSparse]_vars

\* a mapper whose schema holds the table TE, to which no category is mapped
InitEmptyTable ==
    /\ filterType \in FilterTypes
    /\ tableIdExcludeD \in ExcludeLists
    /\ overWrite = EmptyDict
    /\ tableDataDict = EmptyDict
    /\ containerNameList = <<>>
    /\ history = <<>>
    /\ tableIdList \in TableIdListsTE
    /\ contentSelectors = <<>>
    /\ processRaised = FALSE
    /\ WorkersIdle
    /\ ShapeIdle
    /\ HoldingsIdle

SpecEmptyTable == InitEmptyTable /\ [][NextSparse]_vars

\* the content selectors the caller passes
SelectorLists == {<<"SEL_CS">>, <<"SEL_CA">>, <<"SEL_CS", "SEL_CA">>}

\* a mapper whose calls pass content selectors
InitSelect ==
    /\ filterType \in {{}, {"drop-empty-tables"}}
    /\ tableIdExcludeD = {}
    /\ overWrite = EmptyDict
    /\ tableDataDict = EmptyDict
    /\ containerNameList = <<>>
    /\ history = <<>>
    /\ tableIdList = TableIdList
    /\ contentSelectors \in SelectorLists
    /\ processRaised = FALSE
    /\ WorkersIdle
    /\ ShapeIdle
    /\ HoldingsIdle

SpecSelect == InitSelect /\ [][NextSparse]_vars

NextMerge == ProcessMerged

SpecMerge == InitMap /\ [][NextMerge]_vars

(***************************************************************************)
(* A split run: the container list is split into disjoint sublists, each   *)
(* mapped by the SchemaDefDataPrep object of its own worker, and the whole *)
(* list is mapped by one object.                                           *)
(***************************************************************************)
InitWorkers ==
    /\ filterType \in {{}, {"skip-max-width"}}
    /\ tableIdExcludeD = {}
    /\ MapIdle
    /\ wList \in CsLists(WorkerRowKinds, MaxContainers, MaxRows)
    /\ wAssign \in [1..Len(wList) -> Workers]
    /\ wOver = [w \in Workers |-> EmptyDict]
    /\ wRan = {}
    /\ seqOver = EmptyDict
    /\ seqRan = FALSE
    /\ ShapeIdle
    /\ HoldingsIdle

\* the containers of the list that are assigned to worker w, in list order
RECURSIVE SubList(_, _, _)
SubList(cl, assign, w) ==
    IF cl = <<>> THEN <<>>
    ELSE (IF Head(assign) = w THEN <<Head(cl)>> ELSE <<>>)
         \o SubList(Tail(cl), Tail(assign), w)

\* worker w calls process() on its sublist with its own object
WorkerProcess(w) ==
    /\ w \notin wRan
    /\ wOver' = [wOver EXCEPT ![w] =
                    ProcessList(SubList(wList, wAssign, w), tableIdExcludeD, filterType, wOver[w]).ow]
    /\ wRan' = wRan \cup {w}
    /\ UNCHANGED <<mapVars, wList, wAssign, seqOver, seqRan, shapeVars, heapVars, holdingsVars>>

\* one object calls process() on the whole list
SequentialProcess ==
    /\ ~seqRan
    /\ seqOver' = ProcessList(wList, tableIdExcludeD, filterType, seqOver).ow
    /\ seqRan' = TRUE
    /\ UNCHANGED <<mapVars, wList, wAssign, wOver, wRan, shapeVars, heapVars, holdingsVars>>

NextWorkers == (\E w \in Workers : WorkerProcess(w)) \/ SequentialProcess

SpecWorkers == InitWorkers /\ [][NextWorkers]_vars

(***************************************************************************)
(* Reshaping runs: a schema definition and a mapping by id, then calls of  *)
(* applyShape, applySlicedShape and __transformTableData on that mapping.  *)
(***************************************************************************)
\* the rows a table of the mapping can hold; the POLY row without P_SEQ is
\* what the mapper leaves when it drops an empty attribute
EntityRowKinds ==
    {[E_ID |-> "1", E_TYPE |-> "polymer"], [E_ID |-> "2", E_TYPE |-> "water"]}

PolyRowKinds ==
    {[P_EID |-> "1", P_SEQ |-> "A"], [P_EID |-> "2", P_SEQ |-> "A"], [P_EID |-> "1"]}

\* the ENTRY table: dropped, empty, or holding the entry's row
EntryTables == {EmptyDict, "ENTRY" :> TList(<<>>), "ENTRY" :> TList(<<[X_ID |-> "x"]>>)}

ShapeInputs ==
    UNION {{("ENTITY" :> TList(e)) @@ ("POLY" :> TList(p)) @@ x :
                p \in {q \in SeqsUpTo(PolyRowKinds, MaxTableRows) :
                            Len(e) + Len(q) <= MaxShapeRows},
                x \in EntryTables} :
           e \in SeqsUpTo(EntityRowKinds, MaxTableRows)}

InitShape ==
    /\ filterType = {}
    /\ tableIdExcludeD = {}
    /\ MapIdle
    /\ WorkersIdle
    /\ schemaDef \in SchemaDefs
    /\ schemaDataDictById \in ShapeInputs
    /\ call = [op |-> "none", styleType |-> "none", sliceFilter |-> FALSE]
    /\ result = Ok(EmptyDict)
    /\ HeapIdle
    /\ HoldingsIdle

CallApplyShape(styleType) ==
    /\ call' = [op |-> "applyShape", styleType |-> styleType, sliceFilter |-> FALSE]
    /\ result' = ApplyShape(schemaDataDictById, schemaDef, styleType)
    /\ UNCHANGED <<mapVars, workerVars, schemaDef, schemaDataDictById, heapVars, holdingsVars>>

\* the mutant of the slicing call: the rows of the input mapping are renamed
\* in place
CallApplySlicedShapeInPlace(styleType, sliceFilter) ==
    /\ call' = [op |-> "applySlicedShape", styleType |-> styleType, sliceFilter |-> sliceFilter]
    /\ result' = ApplySlicedShape(schemaDataDictById, schemaDef, styleType, sliceFilter)
    /\ schemaDataDictById' =
            [schemaId \in DOMAIN schemaDataDictById |->
                TList(RenameRows(schemaDataDictById[schemaId].rows))]
    /\ UNCHANGED <<mapVars, workerVars, schemaDef, heapVars, holdingsVars>>

CallApplySlicedShape(styleType, sliceFilter) ==
    /\ call' = [op |-> "applySlicedShape", styleType |-> styleType, sliceFilter |-> sliceFilter]
    /\ result' = ApplySlicedShape(schemaDataDictById, schemaDef, styleType, sliceFilter)
    /\ UNCHANGED <<mapVars, workerVars, schemaDef, schemaDataDictById, heapVars, holdingsVars>>

CallTransformTableData(styleType) ==
    /\ call' = [op |-> "transformTableData", styleType |-> styleType, sliceFilter |-> FALSE]
    /\ result' = Ok(TransformTableData(schemaDataDictById, schemaDef, styleType))
    /\ UNCHANGED <<mapVars, workerVars, schemaDef, schemaDataDictById, heapVars, holdingsVars>>

NextShape ==
    \/ \E styleType \in StyleTypes : CallApplyShape(styleType)
    \/ \E styleType \in StyleTypes, sliceFilter \in BOOLEAN :
            CallApplySlicedShape(styleType, sliceFilter)
    \/ \E styleType \in StyleTypes : CallTransformTableData(styleType)

SpecShape == InitShape /\ [][NextShape]_vars

(***************************************************************************)
(* Further slice filters: two parent items with a parent filter on the     *)
(* first parent category only, two parent items whose keys the table POLY  *)
(* both lists in its slice-index entry, and one parent item with the       *)
(* sliced table POLY and the slice extra ENTRY mandatory.                  *)
(***************************************************************************)
\* the slice index in which POLY is a child of the entity id and of the
\* entry id
SliceIndexBoth ==
    [ENTITY |-> (ParentKey(ParentEntity) :> <<"E_ID">>),
     POLY |-> (ParentKey(ParentEntity) :> <<"P_EID">>) @@ (ParentKey(ParentEntry) :> <<"P_SEQ">>)]

SliceSchemaDefs ==
    {[parentItems |-> <<ParentEntity, ParentEntry>>, parentFilters |-> <<FilterPolymer>>,
      sliceIndex |-> SliceIndexEntity, extraIds |-> <<"ENTRY">>,
      unit |-> {}, sliceUnit |-> {}, mandatory |-> {}],
     [parentItems |-> <<ParentEntity, ParentEntry>>, parentFilters |-> <<>>,
      sliceIndex |-> SliceIndexBoth, extraIds |-> <<>>,
      unit |-> {}, sliceUnit |-> {}, mandatory |-> {}],
     [parentItems |-> <<ParentEntity>>, parentFilters |-> <<>>,
      sliceIndex |-> SliceIndexEntity, extraIds |-> <<"ENTRY">>,
      unit |-> {}, sliceUnit |-> {}, mandatory |-> {"POLY", "ENTRY"}]}

InitSlice ==
    /\ filterType = {}
    /\ tableIdExcludeD = {}
    /\ MapIdle
    /\ WorkersIdle
    /\ schemaDef \in SliceSchemaDefs
    /\ schemaDataDictById \in ShapeInputs
    /\ call = [op |-> "none", styleType |-> "none", sliceFilter |-> FALSE]
    /\ result = Ok(EmptyDict)
    /\ HeapIdle
    /\ HoldingsIdle

SpecSlice == InitSlice /\ [][NextShape]_vars

(***************************************************************************)
(* The objects a slicing call returns.  A partition is a dict that holds,  *)
(* per table name, a list object of row objects or one row object; the     *)
(* caller then mutates the slice-extra table it reaches through one        *)
(* partition.  A list object is named by its owner and table name, a row   *)
(* object by owner, table name and position; owner 0 is the rD that the    *)
(* one-pass partitioner builds once.                                       *)
(***************************************************************************)
\* the names of the slice-extra tables
ExtraNames(sD) == {GetSchemaName(schemaId) : schemaId \in Range(sD.extraIds)}

\* who allocated the objects of a table of partition p: the one-pass
\* partitioner puts copy.copy(rD) into every partition, a shallow copy that
\* holds the list and row objects of rD itself; a naive slicer builds
\* oRowDList and its rows anew in every call
Owner(styleType, sD, schemaObjName, p) ==
    IF styleType = "rowwise_by_name_with_cardinality" /\ schemaObjName \in ExtraNames(sD)
    THEN 0 ELSE p

\* the entries (owner, name, partition) of the tables of the partitions
HeapEntries(parts, styleType, sD) ==
    UNION {{<<Owner(styleType, sD, schemaObjName, p), schemaObjName, p>> :
                schemaObjName \in DOMAIN parts[p]} : p \in 1..Len(parts)}

\* the rows of a table value: those of the list, or the single row object
RowsOfValue(tableValue) ==
    IF tableValue.kind = "list" THEN tableValue.rows ELSE <<tableValue.row>>

AllocLists(parts, styleType, sD) ==
    LET entries == {e \in HeapEntries(parts, styleType, sD) : parts[e[3]][e[2]].kind = "list"}
    IN [listId \in {<<e[1], e[2]>> : e \in entries} |->
            LET e == CHOOSE e \in entries : <<e[1], e[2]>> = listId
            IN [i \in 1..Len(parts[e[3]][e[2]].rows) |-> <<listId[1], listId[2], i>>]]

AllocRows(parts, styleType, sD) ==
    LET entries == HeapEntries(parts, styleType, sD)
        rowIds == UNION {{<<e[1], e[2], i>> : i \in 1..Len(RowsOfValue(parts[e[3]][e[2]]))} :
                            e \in entries}
    IN [rowId \in rowIds |->
            LET e == CHOOSE e \in entries :
                        /\ e[1] = rowId[1] /\ e[2] = rowId[2]
                        /\ rowId[3] <= Len(RowsOfValue(parts[e[3]][e[2]]))
            IN RowsOfValue(parts[e[3]][e[2]])[rowId[3]]]

AllocRefs(parts, styleType, sD) ==
    [p \in 1..Len(parts) |->
        [schemaObjName \in DOMAIN parts[p] |->
            LET owner == Owner(styleType, sD, schemaObjName, p) IN
            [kind |-> parts[p][schemaObjName].kind,
             ref |-> IF parts[p][schemaObjName].kind = "list"
                     THEN <<owner, schemaObjName>> ELSE <<owner, schemaObjName, 1>>]]]

\* what partition p holds for a table name, read through its references
View(p, schemaObjName) ==
    LET held == partRefs[p][schemaObjName] IN
    IF held.kind = "list"
    THEN TList([i \in 1..Len(heapLists[held.ref]) |-> heapRows[heapLists[held.ref][i]]])
    ELSE TRow(heapRows[held.ref])

\* applySlicedShape with the slice filter, and the objects it returns
CallSliceOnHeap(styleType) ==
    LET r == ApplySlicedShape(schemaDataDictById, schemaDef, styleType, TRUE) IN
    /\ call' = [op |-> "applySlicedShape", styleType |-> styleType, sliceFilter |-> TRUE]
    /\ result' = r
    /\ IF r.status = "ok"
       THEN /\ partRefs' = AllocRefs(r.value, styleType, schemaDef)
            /\ heapLists' = AllocLists(r.value, styleType, schemaDef)
            /\ heapRows' = AllocRows(r.value, styleType, schemaDef)
       ELSE /\ partRefs' = <<>>
            /\ heapLists' = EmptyDict
            /\ heapRows' = EmptyDict
    /\ mutated' = 0
    /\ UNCHANGED <<mapVars, workerVars, schemaDef, schemaDataDictById, holdingsVars>>

\* the caller has not mutated yet and partition p holds the slice-extra table
CanMutate(p, schemaObjName) ==
    /\ mutated = 0
    /\ p \in 1..Len(partRefs)
    /\ schemaObjName \in DOMAIN partRefs[p] \cap ExtraNames(schemaDef)

\* partition[name].append(row)
AppendRow(p, schemaObjName) ==
    /\ CanMutate(p, schemaObjName)
    /\ partRefs[p][schemaObjName].kind = "list"
    /\ LET listId == partRefs[p][schemaObjName].ref
           rowId == <<listId[1], listId[2], Len(heapLists[listId]) + 1>>
       IN /\ heapLists' = [heapLists EXCEPT ![listId] = Append(@, rowId)]
          /\ heapRows' = (rowId :> [id |-> "appended"]) @@ heapRows
    /\ mutated' = p
    /\ UNCHANGED <<mapVars, workerVars, shapeVars, partRefs, holdingsVars>>

\* partition[name].pop()
RemoveRow(p, schemaObjName) ==
    /\ CanMutate(p, schemaObjName)
    /\ partRefs[p][schemaObjName].kind = "list"
    /\ LET listId == partRefs[p][schemaObjName].ref IN
        /\ Len(heapLists[listId]) >= 1
        /\ heapLists' = [heapLists EXCEPT ![listId] = SubSeq(@, 1, Len(@) - 1)]
    /\ mutated' = p
    /\ UNCHANGED <<mapVars, workerVars, shapeVars, partRefs, heapRows, holdingsVars>>

\* partition[name][0]["id"] = value, or partition[name]["id"] = value for a
\* table collapsed to its row
ChangeField(p, schemaObjName) ==
    /\ CanMutate(p, schemaObjName)
    /\ LET held == partRefs[p][schemaObjName] IN
        /\ held.kind = "list" => Len(heapLists[held.ref]) >= 1
        /\ LET rowId == IF held.kind = "list" THEN heapLists[held.ref][1] ELSE held.ref
           IN heapRows' = [heapRows EXCEPT ![rowId] = ("id" :> "changed") @@ @]
    /\ mutated' = p
    /\ UNCHANGED <<mapVars, workerVars, shapeVars, partRefs, heapLists, holdingsVars>>

\* the styles of the naive slicer and of the one-pass partitioner
SliceStyles == {"rowwise_by_name", "rowwise_by_name_with_cardinality"}

NextAlias ==
    \/ \E styleType \in SliceStyles : CallSliceOnHeap(styleType)
    \/ \E p \in 1..Len(partRefs), schemaObjName \in ExtraNames(schemaDef) :
            AppendRow(p, schemaObjName)
    \/ \E p \in 1..Len(partRefs), schemaObjName \in ExtraNames(schemaDef) :
            RemoveRow(p, schemaObjName)
    \/ \E p \in 1..Len(partRefs), schemaObjName \in ExtraNames(schemaDef) :
            ChangeField(p, schemaObjName)

SpecAlias == InitShape /\ [][NextAlias]_vars

(***************************************************************************)
(* Properties of the mapper.                                               *)
(***************************************************************************)
\* the container list of the last process() call
LastList == history[Len(history)]

\* the rows of a category over a container list, in mapping order
RECURSIVE RawRows(_, _)
RawRows(cl, categoryName) ==
    IF cl = <<>> THEN <<>>
    ELSE (IF categoryName \in DOMAIN Head(cl).cats
          THEN Head(cl).cats[categoryName].rows ELSE <<>>)
         \o RawRows(Tail(cl), categoryName)

\* the value a row of cs holds for the column attribute atId is mapped from
RawOfTS(row, atId) == row[IndexOf(<<"val", "dt">>, TableDefTS.map[atId])]

\* the attributes of the single-category table TS that have a positive
\* maximum width and a source column
WidthAttributesTS == {"VAL", "DT"}

\* the value is neither skipped as empty nor converted to a date or a list
ReachesWidthStep(tObj, atId, val) ==
    /\ ~("drop-empty-attributes" \in filterType /\ IsEmptyValue(val))
    /\ ~("assign-dates" \in filterType /\ atId \in tObj.date /\ ~IsEmptyValue(val))
    /\ ~("convert-iterables" \in filterType /\ atId \in tObj.iter /\ ~IsEmptyValue(val))

\* C1 (as claimed): a row of ca and a row of cb of one container with equal
\* merge keys, no drop-empty-attributes, combine into exactly one row of TM
\* that holds ca's value for A1 (only ca maps it), cb's value for A3 (only cb
\* maps it), cb's value for A2 (both map it) and the null default for A0
\* (neither maps it).
C1_MergeCorrectness ==
    (/\ history # <<>>
     /\ "drop-empty-attributes" \notin filterType
     /\ "TM" \notin tableIdExcludeD
     /\ Len(LastList) = 1)
    =>
    LET rowsA == RawRows(LastList, "ca")
        rowsB == RawRows(LastList, "cb")
    IN \A i \in 1..Len(rowsA), j \in 1..Len(rowsB) :
        (/\ rowsA[i][1] = rowsB[j][2]
         /\ \A i2 \in 1..Len(rowsA) : rowsA[i2][1] = rowsA[i][1] => i2 = i
         /\ \A j2 \in 1..Len(rowsB) : rowsB[j2][2] = rowsB[j][2] => j2 = j)
        =>
        LET e == [A0 |-> Null, A1 |-> Str(rowsA[i][1]),
                  A2 |-> Str(rowsB[j][1]), A3 |-> Str(rowsB[j][2])]
        IN /\ "TM" \in DOMAIN tableDataDict
           /\ Cardinality({n \in 1..Len(tableDataDict["TM"]) : tableDataDict["TM"][n] = e}) = 1

\* C8 (as claimed): without skip-max-width, for every attribute of TS with
\* max width W the overflow entry is the maximum raw length over all rows
\* mapped so far whose raw length exceeds W, there is no entry when no raw
\* length exceeded W, and every emitted value is the first W characters of
\* its raw value.
C8_Original ==
    ("skip-max-width" \notin filterType /\ "TS" \notin tableIdExcludeD)
    =>
    \A atId \in WidthAttributesTS :
        LET W == TableDefTS.width[atId]
            all == RawRows(Flatten(history), "cs")
            over == {l \in {Len(RawOfTS(all[i], atId)) : i \in 1..Len(all)} : l > W}
            key == <<"TS", atId>>
        IN /\ over = {} => key \notin DOMAIN overWrite
           /\ over # {} => key \in DOMAIN overWrite /\ overWrite[key] = Max(over)
           /\ (history # <<>> /\ LastList # <<>>) =>
                LET raw == RawRows(LastList, "cs")
                    out == IF "TS" \in DOMAIN tableDataDict THEN tableDataDict["TS"] ELSE <<>>
                IN /\ Len(out) = Len(raw)
                   /\ \A i \in 1..Len(raw) :
                        atId \in DOMAIN out[i]
                        => out[i][atId] = Str(Take(RawOfTS(raw[i], atId), W))

\* C8 (amended), the state part: the same for the values that reach the
\* width step, that is all but those skipped as empty or converted to a date
\* or a list; a raw value '?' or '.' is emitted as the null default.
C8_HighWaterMark ==
    ("skip-max-width" \notin filterType /\ "TS" \notin tableIdExcludeD)
    =>
    \A atId \in WidthAttributesTS :
        LET W == TableDefTS.width[atId]
            all == RawRows(Flatten(history), "cs")
            over == {l \in {Len(RawOfTS(all[i], atId)) :
                               i \in {n \in 1..Len(all) :
                                        ReachesWidthStep(TableDefTS, atId, RawOfTS(all[n], atId))}} :
                       l > W}
            key == <<"TS", atId>>
        IN /\ over = {} => key \notin DOMAIN overWrite
           /\ over # {} => key \in DOMAIN overWrite /\ overWrite[key] = Max(over)
           /\ (history # <<>> /\ LastList # <<>>) =>
                LET raw == RawRows(LastList, "cs")
                    out == IF "TS" \in DOMAIN tableDataDict THEN tableDataDict["TS"] ELSE <<>>
                IN /\ Len(out) = Len(raw)
                   /\ \A i \in 1..Len(raw) :
                        LET val == RawOfTS(raw[i], atId) IN
                        ReachesWidthStep(TableDefTS, atId, val)
                        => /\ atId \in DOMAIN out[i]
                           /\ out[i][atId] = IF val = QMark \/ val = Dot THEN Null
                                             ELSE Str(Take(val, W))

\* C8 (amended), the step part: no call removes or lowers an overflow entry
C8_NeverDecreases ==
    \A key \in DOMAIN overWrite :
        key \in DOMAIN overWrite' /\ overWrite'[key] >= overWrite[key]

\* C8 (amended): the high-water mark of the truncated values, over rows,
\* containers and successive calls on the same object
C8_TruncationHighWaterMark == []C8_HighWaterMark /\ [][C8_NeverDecreases]_vars

\* C8 witness: two calls, the first maps a value of length 4 and the second
\* one of length 3 into VAL of width 2, and the entry is 4
C8_Witness ==
    /\ filterType = {}
    /\ tableIdExcludeD = {}
    /\ Len(history) = 2
    /\ LET first == RawRows(history[1], "cs")
           second == RawRows(history[2], "cs")
       IN /\ Len(first) = 1 /\ Len(first[1][1]) = 4
          /\ Len(second) = 1 /\ Len(second[1][1]) = 3
    /\ overWrite[<<"TS", "VAL">>] = 4
    /\ tableDataDict["TS"][1]["VAL"] = Str(<<"a", "b">>)

\* the max-merge of two overflow maps
MaxMerge(a, b) ==
    [k \in DOMAIN a \cup DOMAIN b |->
        IF k \in DOMAIN a /\ k \in DOMAIN b THEN Max({a[k], b[k]})
        ELSE IF k \in DOMAIN a THEN a[k] ELSE b[k]]

\* C9: when every worker has mapped its sublist with its own object, the
\* max-merge of the workers' overflow maps, in every order and grouping, is
\* the overflow map of one object that maps the whole list.
C9_MaxMergeRecombines ==
    (wRan = Workers /\ seqRan)
    =>
    \A a \in Workers, b \in Workers, c \in Workers :
        (a # b /\ b # c /\ a # c)
        => /\ MaxMerge(MaxMerge(wOver[a], wOver[b]), wOver[c]) = seqOver
           /\ MaxMerge(wOver[a], MaxMerge(wOver[b], wOver[c])) = seqOver

\* C9 witness: two workers hold different overflows of VAL, the sequential
\* run holds the larger one although it mapped the smaller one last
C9_Witness ==
    /\ wRan = Workers /\ seqRan
    /\ filterType = {}
    /\ \E a \in Workers, b \in Workers :
        /\ <<"TS", "VAL">> \in DOMAIN wOver[a] /\ wOver[a][<<"TS", "VAL">>] = 4
        /\ <<"TS", "VAL">> \in DOMAIN wOver[b] /\ wOver[b][<<"TS", "VAL">>] = 3
    /\ Len(wList) = 2
    /\ Len(RawRows(<<wList[2]>>, "cs")[1][1]) = 3
    /\ seqOver[<<"TS", "VAL">>] = 4

(***************************************************************************)
(* Properties of reshaping and slicing.                                    *)
(***************************************************************************)
\* the last call was applySlicedShape with the slice filter and this style
SlicedCall(styleTypes) ==
    /\ call.op = "applySlicedShape"
    /\ call.sliceFilter
    /\ call.styleType \in styleTypes

\* the combinations the enumerator yields for the mapping of the run
Enumerated == SliceValuesData(schemaDataDictById, schemaDef)

\* row r matches a combination for a table: for every parent item that the
\* table's slice-index entry lists, a listed child attribute of r holds the
\* parent item's value of the combination
MatchesEntry(schemaId, r, combination) ==
    \A i \in 1..Len(combination) :
        combination[i][1] \in DOMAIN schemaDef.sliceIndex[schemaId] =>
            \E cAtId \in Range(schemaDef.sliceIndex[schemaId][combination[i][1]]) :
                cAtId \in DOMAIN r /\ r[cAtId] = combination[i][2]

\* the rows of a table that match a combination, in order
MatchingRows(schemaId, combination) ==
    SelectSeq(schemaDataDictById[schemaId].rows,
              LAMBDA r : MatchesEntry(schemaId, r, combination))

\* a record set holds exactly these rows of a table, row-wise or column-wise
HoldsRows(recordSet, schemaId, rows) ==
    LET schemaObjName == GetSchemaName(schemaId) IN
    IF schemaObjName \in DOMAIN recordSet
    THEN recordSet[schemaObjName] \in {TList(RenameRows(rows)), TCols(Columns(rows))}
    ELSE rows = <<>>

\* C3: with the naive partitioner (styles rowwise_by_name, columnwise_by_name)
\* a row of a table with a slice-index entry is in the record set of a
\* combination iff it matches the combination on every parent item the table's
\* entry lists; parent items the entry does not list do not restrict the row.
C3_SliceCompleteness ==
    (SlicedCall({"rowwise_by_name", "columnwise_by_name"}) /\ result.status = "ok") =>
        /\ Len(result.value) = Len(Enumerated)
        /\ \A ii \in 1..Len(Enumerated) :
            \A schemaId \in DOMAIN schemaDataDictById \cap DOMAIN schemaDef.sliceIndex :
                HoldsRows(result.value[ii], schemaId, MatchingRows(schemaId, Enumerated[ii]))

\* C4: for a slice filter with a single parent item the one-pass partitioner
\* returns, element by element, what the naive with-cardinality slicer returns
\* for the combinations of SliceValues, in SliceValues order.
C4_NaiveOnePassEquivalence ==
    (SlicedCall({"rowwise_by_name_with_cardinality"}) /\ Len(schemaDef.parentItems) = 1) =>
        /\ result.status = "ok"
        /\ Len(result.value) = Len(Enumerated)
        /\ \A ii \in 1..Len(Enumerated) :
            result.value[ii] =
                SliceRowwiseByNameWithCard(schemaDataDictById, schemaDef, Enumerated[ii]).value

\* C5: applySlicedShape with a slice filter whose enumeration is empty returns
\* an empty list without raising, for every style.
C5_EmptyEnumeration ==
    (SlicedCall(StyleTypes) /\ Enumerated = <<>>) =>
        (result.status = "ok" /\ result.value = <<>>)

\* the values of a parent item observed in the rows that pass the parent filters
ObservedValues(sp) ==
    IF sp.CATEGORY \in DOMAIN schemaDataDictById
    THEN {r[sp.ATTRIBUTE] : r \in {q \in Range(schemaDataDictById[sp.CATEGORY].rows) :
                                    TestFilter(q, sp.CATEGORY, schemaDef.parentFilters)}}
    ELSE {}

\* the product of the numbers of distinct values observed per parent item
RECURSIVE DistinctProduct(_)
DistinctProduct(parentItems) ==
    IF parentItems = <<>> THEN 1
    ELSE Cardinality(ObservedValues(Head(parentItems))) * DistinctProduct(Tail(parentItems))

\* C6: SliceValues yields each combination of parent values at most once, and
\* as many combinations as the product of the numbers of distinct values
\* observed per parent item; the naive partitioner returns one record set each.
C6_EnumeratorDistinct ==
    (SlicedCall({"rowwise_by_name"}) /\ result.status = "ok") =>
        /\ Len(result.value) = Len(Enumerated)
        /\ \A i, j \in 1..Len(Enumerated) : i # j => Enumerated[i] # Enumerated[j]
        /\ Len(Enumerated) = DistinctProduct(schemaDef.parentItems)

\* the last call reshaped with style rowwise_by_name_with_cardinality
WithCardCall ==
    /\ call.op \in {"applyShape", "transformTableData"}
    /\ call.styleType = "rowwise_by_name_with_cardinality"

\* C7: reshaping with style rowwise_by_name_with_cardinality, by applyShape and
\* by __transformTableData, gives a table a single row object iff the table is
\* flagged unit-cardinality and has exactly one row; every other table is the
\* list of all its rows in order.
C7_CardinalityCollapse ==
    WithCardCall =>
        /\ result.status = "ok"
        /\ DOMAIN result.value = NamesOf(schemaDataDictById)
        /\ \A schemaId \in DOMAIN schemaDataDictById :
            LET shaped == result.value[GetSchemaName(schemaId)]
                rows == schemaDataDictById[schemaId].rows
            IN /\ shaped.kind = "row" <=> (schemaId \in schemaDef.unit /\ Len(rows) = 1)
               /\ shaped.kind = "row" => shaped.row = RenameRow(rows[1])
               /\ shaped.kind # "row" => shaped = TList(RenameRows(rows))

\* applyShape collapsed the one row of a unit-cardinality table, kept the two
\* rows of another as a list, and kept the one row of a table without the flag
\* as a list
C7_Witness ==
    /\ WithCardCall
    /\ call.op = "applyShape"
    /\ schemaDef.unit = {"POLY", "ENTRY"}
    /\ "ENTRY" \in DOMAIN schemaDataDictById
    /\ Len(schemaDataDictById["ENTRY"].rows) = 1
    /\ Len(schemaDataDictById["POLY"].rows) = 2
    /\ Len(schemaDataDictById["ENTITY"].rows) = 1
    /\ result.value["entry"].kind = "row"
    /\ result.value["entity_poly"].kind = "list"
    /\ result.value["entity"].kind = "list"

\* a row of the mapping lacks one of its table's attribute ids
LacksAttribute ==
    \E schemaId \in DOMAIN schemaDataDictById :
        \E r \in Range(schemaDataDictById[schemaId].rows) :
            Range(GetAttributeIdList(schemaId)) \ DOMAIN r # {}

\* C10: applyShape never raises; when building the named layout fails (style
\* rowwise_no_name on a row that lacks an attribute id) it returns the original
\* by-id mapping, and otherwise the layout of every table: never a part of it.
C10_ReshapeAllOrNothing ==
    call.op = "applyShape" =>
        /\ result.status = "ok"
        /\ (call.styleType = "rowwise_no_name" /\ LacksAttribute) =>
                result.value = schemaDataDictById
        /\ \/ result.value = schemaDataDictById
           \/ DOMAIN result.value = NamesOf(schemaDataDictById)

\* applyShape was called with rowwise_no_name on a mapping whose second table
\* holds a row without P_SEQ, and returned the mapping by id
C10_Witness ==
    /\ call.op = "applyShape"
    /\ call.styleType = "rowwise_no_name"
    /\ Len(schemaDataDictById["ENTITY"].rows) >= 1
    /\ \E r \in Range(schemaDataDictById["POLY"].rows) : "P_SEQ" \notin DOMAIN r
    /\ result.value = schemaDataDictById

\* C2: after applySlicedShape with a slice filter, mutating the slice-extra
\* table that one partition holds never changes the slice-extra table another
\* partition holds: every other partition still holds what the call returned.
C2_SliceExtraIndependence ==
    \A q \in 1..Len(partRefs) :
        (mutated # 0 /\ q # mutated) =>
            \A schemaObjName \in DOMAIN partRefs[q] \cap ExtraNames(schemaDef) :
                View(q, schemaObjName) = result.value[q][schemaObjName]

\* the same for the partitions of the naive slicer alone
C2_NaiveIndependence ==
    call.styleType = "rowwise_by_name" => C2_SliceExtraIndependence

\* the four named layouts
NamedStyles ==
    {"rowwise_by_name", "rowwise_by_name_with_cardinality", "columnwise_by_name",
     "rowwise_no_name"}

\* C11: for style rowwise_by_id and for every style that is none of the four
\* named layouts applyShape does not raise and returns its input mapping: the
\* same tables, the same rows, the same attribute-id keys.
C11_IdentityStyles ==
    (call.op = "applyShape" /\ call.styleType \notin NamedStyles) =>
        /\ result.status = "ok"
        /\ DOMAIN result.value = DOMAIN schemaDataDictById
        /\ \A schemaId \in DOMAIN schemaDataDictById :
            result.value[schemaId] = schemaDataDictById[schemaId]

\* applyShape was called with a style that is no named layout on a mapping
\* whose three tables hold rows, and returned the tables under their ids
C11_Witness ==
    /\ call.op = "applyShape"
    /\ call.styleType = "by_something_else"
    /\ DOMAIN schemaDataDictById = {"ENTITY", "POLY", "ENTRY"}
    /\ \A schemaId \in DOMAIN schemaDataDictById : Len(schemaDataDictById[schemaId].rows) >= 1
    /\ result.value["POLY"] = schemaDataDictById["POLY"]

\* record set ii holds, for every parent item, only rows of the parent
\* category that carry the parent value of combination ii
ForCombination(recordSet, combination) ==
    \A j \in 1..Len(combination) :
        LET schemaObjName == GetSchemaName(combination[j][1][1])
            atName == GetAttributeName(combination[j][1][2])
        IN (schemaObjName \in DOMAIN recordSet /\ recordSet[schemaObjName].kind = "list") =>
            \A oRowD \in Range(recordSet[schemaObjName].rows) :
                atName \in DOMAIN oRowD => oRowD[atName] = combination[j][2]

\* C12: for every style the list applySlicedShape returns with a slice filter
\* has one record set per combination of the enumerator, the i-th for the i-th
\* combination in product order; with two or more parent items their number is
\* the number of combinations, not of parent values.
C12_PartitionListMatches ==
    (SlicedCall(StyleTypes) /\ result.status = "ok") =>
        /\ Len(result.value) = Len(Enumerated)
        /\ \A ii \in 1..Len(Enumerated) :
            call.styleType \in {"rowwise_by_name", "rowwise_by_name_with_cardinality"} =>
                ForCombination(result.value[ii], Enumerated[ii])

\* a record set holds a table with exactly these rows, in this order, in one
\* of the layouts: under the table's name as a list of rows, as the single
\* row, as columns or as positional rows, or under the table's id by id
HoldsAllRows(recordSet, schemaId, rows) ==
    LET schemaObjName == GetSchemaName(schemaId) IN
    \/ /\ schemaObjName \in DOMAIN recordSet
       /\ LET held == recordSet[schemaObjName] IN
          \/ held = TList(RenameRows(rows))
          \/ Len(rows) = 1 /\ held = TRow(RenameRow(rows[1]))
          \/ held = TCols(Columns(rows))
          \/ /\ ~NoNameRaises(schemaId, rows)
             /\ held = TNoName(GetAttributeNameList(schemaId), NoNameRows(schemaId, rows))
    \/ /\ schemaId \in DOMAIN recordSet
       /\ recordSet[schemaId] = TList(rows)

\* the slice-extra tables of the mapping that hold rows
NonEmptyExtras ==
    {schemaId \in Range(schemaDef.extraIds) \cap DOMAIN schemaDataDictById :
        schemaDataDictById[schemaId].rows # <<>>}

\* C13: every record set applySlicedShape returns with a slice filter holds
\* every non-empty slice-extra table of the input with all its rows, in input
\* row order, whatever the combination of the record set.
C13_SliceExtraReplication ==
    (SlicedCall(StyleTypes) /\ result.status = "ok") =>
        \A ii \in 1..Len(result.value) :
            \A schemaId \in NonEmptyExtras :
                HoldsAllRows(result.value[ii], schemaId, schemaDataDictById[schemaId].rows)

\* a slicing call by name returned two record sets for two parent values, the
\* sliced table POLY holds rows, and the slice extra ENTRY holds a row that is
\* in both record sets
C13_Witness ==
    /\ SlicedCall({"rowwise_by_name_with_cardinality", "rowwise_by_name"})
    /\ result.status = "ok"
    /\ Len(result.value) = 2
    /\ NonEmptyExtras = {"ENTRY"}
    /\ Len(schemaDataDictById["POLY"].rows) >= 1
    /\ \A ii \in 1..2 : "entry" \in DOMAIN result.value[ii]

\* C14: without drop-empty-attributes every row the mapper emits, for the
\* single-category table and for the merged table, holds a value for every
\* attribute id of the table's attribute list, also when a source column is
\* missing or a row is too short for the column to be read.
C14_RowCompleteness ==
    "drop-empty-attributes" \notin filterType =>
        \A tableId \in DOMAIN tableDataDict :
            \A i \in 1..Len(tableDataDict[tableId]) :
                DOMAIN tableDataDict[tableId][i] = Range(GetTable(tableId).attrs)

\* one call mapped a container whose cs lacks the column dt and a container
\* whose ca row is too short for a2: the row of TS holds the null default for
\* DT and the row of TM the null default for A2
C14_Witness ==
    /\ filterType = {}
    /\ tableIdExcludeD = {}
    /\ history # <<>>
    /\ Len(LastList) = 2
    /\ LastList[1].cats = [cs |-> [attrs |-> <<"val">>, rows |-> <<<<<<"a", "b", "c">>>>>>]]
    /\ LastList[2].cats = [ca |-> [attrs |-> <<"a1", "a2">>, rows |-> <<<<<<"k">>>>>>]]
    /\ Len(tableDataDict["TS"]) = 1
    /\ tableDataDict["TS"][1]["DT"] = Null
    /\ tableDataDict["TS"][1]["VAL"] = Str(<<"a", "b">>)
    /\ Len(tableDataDict["TM"]) = 1
    /\ tableDataDict["TM"][1]["A2"] = Null
    /\ tableDataDict["TM"][1]["A1"] = Str(<<"k">>)

\* the table receives a row from the container list: a category mapped to
\* the table holds a row in some container
ReceivesRows(tableId, cl) ==
    \E i \in 1..Len(cl) :
        \E categoryName \in Range(GetTable(tableId).cats) :
            /\ categoryName \in DOMAIN cl[i].cats
            /\ cl[i].cats[categoryName].rows # <<>>

\* C15: with drop-empty-tables the mapping process returns holds exactly the
\* non-excluded tables that received a row over all containers; without it,
\* when a container was mapped, it holds every non-excluded table of the
\* schema, those without rows as an empty list.
C15_DropEmptyTables ==
    history # <<>> =>
        LET kept == Range(TableIdList) \ tableIdExcludeD
            filled == {tableId \in kept : ReceivesRows(tableId, LastList)}
        IN IF "drop-empty-tables" \in filterType
           THEN /\ DOMAIN tableDataDict = filled
                /\ \A tableId \in filled : Len(tableDataDict[tableId]) >= 1
           ELSE LastList # <<>> =>
                /\ DOMAIN tableDataDict = kept
                /\ \A tableId \in kept :
                    Len(tableDataDict[tableId]) >= 1 <=> tableId \in filled

\* with drop-empty-tables and no excluded table, a call mapped a container
\* that holds only cs: the mapping holds TS and not the merged table TM
C15_Witness ==
    /\ filterType = {"drop-empty-tables"}
    /\ tableIdExcludeD = {}
    /\ history # <<>>
    /\ Len(LastList) = 1
    /\ DOMAIN LastList[1].cats = {"cs"}
    /\ DOMAIN tableDataDict = {"TS"}
    /\ Len(tableDataDict["TS"]) = 1

\* the values of attribute atId over the rows that contain it, in row order
ValuesInOrder(rows, atId) ==
    LET containing == SelectSeq(rows, LAMBDA r : atId \in DOMAIN r)
    IN [i \in 1..Len(containing) |-> containing[i][atId]]

\* C16: for style columnwise_by_name the list applyShape produces for a table
\* and an attribute name is the sequence of the attribute's values over the
\* rows that contain the attribute, in row order; a row without the attribute
\* contributes no entry.
C16_ColumnwiseLayout ==
    (call.op = "applyShape" /\ call.styleType = "columnwise_by_name") =>
        /\ result.status = "ok"
        /\ DOMAIN result.value = NamesOf(schemaDataDictById)
        /\ \A schemaId \in DOMAIN schemaDataDictById :
            LET rows == schemaDataDictById[schemaId].rows
                held == result.value[GetSchemaName(schemaId)]
                present == {atId \in Range(GetAttributeIdList(schemaId)) :
                                ValuesInOrder(rows, atId) # <<>>}
            IN /\ held.kind = "cols"
               /\ DOMAIN held.cols = {GetAttributeName(atId) : atId \in present}
               /\ \A atId \in present :
                    held.cols[GetAttributeName(atId)] = ValuesInOrder(rows, atId)

\* applyShape laid out by columns a table whose first row lacks P_SEQ and
\* whose second row holds it: the column seq has one entry, entity_id two
C16_Witness ==
    /\ call.op = "applyShape"
    /\ call.styleType = "columnwise_by_name"
    /\ schemaDataDictById["POLY"].rows = <<[P_EID |-> "1"], [P_EID |-> "2", P_SEQ |-> "A"]>>
    /\ result.value["entity_poly"].cols["seq"] = <<"A">>
    /\ result.value["entity_poly"].cols["entity_id"] = <<"1", "2">>

\* the parent values of the enumerated combinations
EnumeratedValues == Range(PVals(Enumerated))

\* the child attributes a sliced table lists for the parent items of the filter
ChildAttributes(schemaId) ==
    UNION {Range(schemaDef.sliceIndex[schemaId][ParentKey(schemaDef.parentItems[j])]) :
            j \in {n \in 1..Len(schemaDef.parentItems) :
                    ParentKey(schemaDef.parentItems[n]) \in DOMAIN schemaDef.sliceIndex[schemaId]}}

\* the rows of a sliced table with a non-empty child value that is no
\* enumerated parent value
UnmatchedRows(schemaId) ==
    {r \in Range(schemaDataDictById[schemaId].rows) :
        \E cAtId \in ChildAttributes(schemaId) \cap DOMAIN r :
            r[cAtId] # "" /\ r[cAtId] \notin EnumeratedValues}

\* the sliced tables of the mapping
SlicedIds == DOMAIN schemaDef.sliceIndex \cap DOMAIN schemaDataDictById

\* the record set holds the row in the table, as a list element or as the
\* table's single row
RowPlaced(recordSet, schemaId, r) ==
    LET schemaObjName == GetSchemaName(schemaId) IN
    /\ schemaObjName \in DOMAIN recordSet
    /\ \/ /\ recordSet[schemaObjName].kind = "list"
          /\ RenameRow(r) \in Range(recordSet[schemaObjName].rows)
       \/ /\ recordSet[schemaObjName].kind = "row"
          /\ recordSet[schemaObjName].row = RenameRow(r)

\* C17: when a row of a sliced table carries a non-empty child value that
\* equals no enumerated parent value, the one-pass partitioner does not raise,
\* returns its partitions, and places the row in none of them.
C17_UnmatchedRows ==
    (/\ SlicedCall({"rowwise_by_name_with_cardinality"})
     /\ Enumerated # <<>>
     /\ Range(schemaDef.extraIds) \subseteq DOMAIN schemaDataDictById
     /\ \E schemaId \in SlicedIds : UnmatchedRows(schemaId) # {})
    =>
        /\ result.status = "ok"
        /\ Len(result.value) >= 1
        /\ \A ii \in 1..Len(result.value) :
            \A schemaId \in SlicedIds :
                \A r \in UnmatchedRows(schemaId) : ~RowPlaced(result.value[ii], schemaId, r)

\* the record set holds the table neither under its name nor under its id
TableAbsent(recordSet, schemaId) ==
    GetSchemaName(schemaId) \notin DOMAIN recordSet /\ schemaId \notin DOMAIN recordSet

\* the rows of a sliced table that pass the membership test for a combination
MemberRows(schemaId, combination) ==
    SelectSeq(schemaDataDictById[schemaId].rows,
              LAMBDA r : InSlice(schemaId, schemaDef.sliceIndex, r, combination))

\* the record set holds no row of the table, or only rows that pass the
\* membership test for the combination
OnlyMemberRows(recordSet, schemaId, combination) ==
    \/ TableAbsent(recordSet, schemaId)
    \/ \E placed \in SeqsUpTo(Range(MemberRows(schemaId, combination)),
                              Len(schemaDataDictById[schemaId].rows)) :
            HoldsAllRows(recordSet, schemaId, placed)

\* C18: for every per-combination style of applySlicedShape with a slice
\* filter, rowwise_no_name and rowwise_by_id included, every row of a table
\* that is not slice-extra and is placed into a record set passes the
\* slice-index membership test for the record set's combination, and a table
\* that is neither in the slice index nor slice-extra is in no record set.
C18_MembershipEveryStyle ==
    (SlicedCall(StyleTypes \ {"rowwise_by_name_with_cardinality"}) /\ result.status = "ok") =>
        /\ Len(result.value) = Len(Enumerated)
        /\ \A ii \in 1..Len(Enumerated) :
            \A schemaId \in DOMAIN schemaDataDictById :
                IF IsSliceExtra(schemaId, schemaDef) THEN TRUE
                ELSE IF schemaId \in DOMAIN schemaDef.sliceIndex
                THEN OnlyMemberRows(result.value[ii], schemaId, Enumerated[ii])
                ELSE TableAbsent(result.value[ii], schemaId)

\* the parent values that key the partitions of the one-pass partitioner, in
\* order of first appearance
PartitionKeys == Distinct(PVals(Enumerated))

\* the rows of a sliced table that belong to the partition of a parent value:
\* a listed child attribute holds the value
BelongingRows(schemaId, pv) ==
    SelectSeq(schemaDataDictById[schemaId].rows,
              LAMBDA r : \E cAtId \in ChildAttributes(schemaId) \cap DOMAIN r :
                            r[cAtId] # "" /\ r[cAtId] = pv)

\* the sliced unit-cardinality tables of the mapping that are not slice-extra
SlicedUnitIds ==
    {schemaId \in SlicedIds \cap schemaDef.sliceUnit : ~IsSliceExtra(schemaId, schemaDef)}

\* C19: in a partition of the one-pass partitioner a sliced unit-cardinality
\* table is a single row object only when exactly one of its rows belongs to
\* the partition; when two or more rows belong to it the table is the list of
\* all of them.
C19_OnePassCollapse ==
    (SlicedCall({"rowwise_by_name_with_cardinality"}) /\ result.status = "ok") =>
        /\ Len(result.value) = Len(PartitionKeys)
        /\ \A ii \in 1..Len(PartitionKeys) :
            \A schemaId \in SlicedUnitIds :
                LET schemaObjName == GetSchemaName(schemaId)
                    belonging == BelongingRows(schemaId, PartitionKeys[ii])
                    recordSet == result.value[ii]
                IN /\ (schemaObjName \in DOMAIN recordSet /\ recordSet[schemaObjName].kind = "row")
                        => Len(belonging) = 1
                   /\ Len(belonging) >= 2 =>
                        /\ schemaObjName \in DOMAIN recordSet
                        /\ recordSet[schemaObjName] = TList(RenameRows(belonging))

\* the raw values the mapper shortened for attribute atId of the table over
\* the containers mapped so far: the values of the attribute's source column,
\* in the categories mapped to the table, that reach the width step and are
\* longer than the attribute's maximum width
ShortenedValues(tObj, atId) ==
    UNION {
        LET cl == Flatten(history)
            present == {n \in 1..Len(cl) :
                            /\ categoryName \in DOMAIN cl[n].cats
                            /\ tObj.map[atId] \in Range(cl[n].cats[categoryName].attrs)}
        IN UNION {
            LET cObj == cl[n].cats[categoryName]
                col == IndexOf(cObj.attrs, tObj.map[atId])
            IN {cObj.rows[i][col] :
                    i \in {m \in 1..Len(cObj.rows) :
                            /\ col <= Len(cObj.rows[m])
                            /\ ReachesWidthStep(tObj, atId, cObj.rows[m][col])
                            /\ Len(cObj.rows[m][col]) > tObj.width[atId]}}
            : n \in present}
        : categoryName \in {c \in Range(tObj.cats) : atId \in Range(tObj.catAttrs[c])}}

\* C20: without skip-max-width, whenever the mapper shortened a value to the
\* attribute's maximum width, for the single-category table or for the merged
\* table, the overflow map holds an entry for (tableId, attributeId) that is
\* at least the length of the value before it was shortened.
C20_OverflowEveryTruncation ==
    "skip-max-width" \notin filterType =>
        \A tableId \in Range(TableIdList) \ tableIdExcludeD :
            \A atId \in DOMAIN GetTable(tableId).map :
                \A val \in ShortenedValues(GetTable(tableId), atId) :
                    /\ <<tableId, atId>> \in DOMAIN overWrite
                    /\ overWrite[<<tableId, atId>>] >= Len(val)

\* the values of a parent item over the rows of its category that pass the
\* parent filters declared for that category
FilteredParentVals(sp) ==
    IF sp.CATEGORY \in DOMAIN schemaDataDictById
    THEN LET own == SelectSeq(schemaDef.parentFilters,
                              LAMBDA f : f.CATEGORY = sp.CATEGORY)
             passing == SelectSeq(schemaDataDictById[sp.CATEGORY].rows,
                                  LAMBDA rowD : \A i \in 1..Len(own) :
                                        /\ own[i].ATTRIBUTE \in DOMAIN rowD
                                        /\ rowD[own[i].ATTRIBUTE] \in own[i].VALUES)
         IN [i \in 1..Len(passing) |-> <<ParentKey(sp), passing[i][sp.ATTRIBUTE]>>]
    ELSE <<>>

\* the slice filter has parent items in two categories and a parent filter
\* for the first of them only
FilterOnOneCategory ==
    /\ Len(schemaDef.parentItems) = 2
    /\ schemaDef.parentItems[1].CATEGORY # schemaDef.parentItems[2].CATEGORY
    /\ schemaDef.parentFilters # <<>>
    /\ \A i \in 1..Len(schemaDef.parentFilters) :
            schemaDef.parentFilters[i].CATEGORY = schemaDef.parentItems[1].CATEGORY

\* C21: with parent items in two categories and a parent filter declared for
\* one of them, the enumerator yields the product of the filtered values of
\* the parent item of the filtered category and all values of the parent item
\* of the other category, and a per-combination style returns one record set
\* per element of that product.
C21_FilterPerCategory ==
    (SlicedCall({"rowwise_by_name"}) /\ FilterOnOneCategory /\ result.status = "ok") =>
        LET expected == Product([i \in 1..2 |-> FilteredParentVals(schemaDef.parentItems[i])])
        IN /\ Enumerated = expected
           /\ Len(result.value) = Len(expected)

\* the tables the slice filter places: in the slice index or slice-extra
PlacedIds ==
    {schemaId \in DOMAIN schemaDataDictById :
        schemaId \in DOMAIN schemaDef.sliceIndex \/ IsSliceExtra(schemaId, schemaDef)}

\* no row of the table belongs to the partition of the combination: the
\* table is slice-extra and empty, or sliced and no row passes the membership
\* test
NoRowBelongs(schemaId, combination) ==
    IF IsSliceExtra(schemaId, schemaDef)
    THEN schemaDataDictById[schemaId].rows = <<>>
    ELSE MemberRows(schemaId, combination) = <<>>

\* no row of the table belongs to the partition of a parent value of the
\* one-pass partitioner
NoRowInPartition(schemaId, pv) ==
    IF IsSliceExtra(schemaId, schemaDef)
    THEN schemaDataDictById[schemaId].rows = <<>>
    ELSE BelongingRows(schemaId, pv) = <<>>

\* the table is in the record set with no row
HeldEmpty(recordSet, schemaId) ==
    LET schemaObjName == GetSchemaName(schemaId) IN
    /\ schemaObjName \in DOMAIN recordSet
    /\ \/ recordSet[schemaObjName] = TList(<<>>)
       \/ recordSet[schemaObjName] = TCols(EmptyDict)

\* the style is one of the naive partitioner by name
NaiveByName == {"rowwise_by_name", "columnwise_by_name"}

MultiKeyIds ==
    {schemaId \in SlicedIds :
        Cardinality({i \in 1..Len(schemaDef.parentItems) :
                        ParentKey(schemaDef.parentItems[i])
                            \in DOMAIN schemaDef.sliceIndex[schemaId]}) > 1}

\* C23: when the one-pass partitioner returns, a table whose slice-index
\* entry matches more than one parent key of the filter was reported with
\* the 'Unsupported slice complexity' error and is in none of the partitions.
C23_UnsupportedComplexity ==
    (SlicedCall({"rowwise_by_name_with_cardinality"}) /\ result.status = "ok") =>
        \A schemaId \in MultiKeyIds :
            /\ schemaId \in SliceComplexityErrors(schemaDataDictById, schemaDef, Enumerated[1])
            /\ \A ii \in 1..Len(result.value) :
                    GetSchemaName(schemaId) \notin DOMAIN result.value[ii]

\* the values of a source column over the rows of a category of a container
\* list, in mapping order; has is FALSE where the category lacks the column
\* or the row is too short for it
RECURSIVE RawColumn(_, _, _)
RawColumn(cl, categoryName, atName) ==
    IF cl = <<>> THEN <<>>
    ELSE (IF categoryName \in DOMAIN Head(cl).cats
          THEN LET cObj == Head(cl).cats[categoryName]
                   col == IndexOf(cObj.attrs, atName)
               IN [i \in 1..Len(cObj.rows) |->
                    IF atName \in Range(cObj.attrs) /\ col <= Len(cObj.rows[i])
                    THEN [has |-> TRUE, val |-> cObj.rows[i][col]]
                    ELSE [has |-> FALSE, val |-> <<>>]]
          ELSE <<>>)
         \o RawColumn(Tail(cl), categoryName, atName)

\* the value of a date-typed attribute is given to the date parser and the
\* parser rejects it
DateParseFails(raw) ==
    /\ raw.has
    /\ ~IsEmptyValue(raw.val)
    /\ ~DateParses(ReplaceFirst(raw.val, ":", " "))

\* C24: with assign-dates, when parsing the value of the date-typed attribute
\* DT fails, the emitted row holds exactly the raw source string for DT, and
\* the row is emitted.
C24_DateParseFailure ==
    (/\ "assign-dates" \in filterType
     /\ "TS" \notin tableIdExcludeD
     /\ history # <<>>)
    =>
    LET raw == RawColumn(LastList, "cs", "dt")
        out == IF "TS" \in DOMAIN tableDataDict THEN tableDataDict["TS"] ELSE <<>>
    IN /\ Len(out) = Len(raw)
       /\ \A i \in 1..Len(raw) :
            DateParseFails(raw[i]) =>
                /\ "DT" \in DOMAIN out[i]
                /\ out[i]["DT"] = Str(raw[i].val)

\* the value the single-category mapper emits for a raw value that reaches
\* the width step
WidthStepValue(tObj, atId, val) ==
    IF val = QMark \/ val = Dot THEN Null
    ELSE IF "skip-max-width" \in filterType THEN Str(val)
    ELSE Str(Take(val, tObj.width[atId]))

\* C25: for the single-category table the rows emitted for the containers
\* of a call are as many as the rows of the source category; an attribute
\* whose source column is missing or whose extraction raises is left at its
\* null default (absent under drop-empty-attributes), and the other
\* attributes of the row are still extracted.
C25_RowFailureIsolation ==
    ("TS" \notin tableIdExcludeD /\ history # <<>>) =>
    LET out == IF "TS" \in DOMAIN tableDataDict THEN tableDataDict["TS"] ELSE <<>>
    IN /\ Len(out) = Len(RawRows(LastList, "cs"))
       /\ \A atId \in DOMAIN TableDefTS.map :
            LET raw == RawColumn(LastList, "cs", TableDefTS.map[atId]) IN
            \A i \in 1..Len(raw) :
                IF ~raw[i].has
                THEN IF "drop-empty-attributes" \in filterType
                     THEN atId \notin DOMAIN out[i]
                     ELSE out[i][atId] = Null
                ELSE /\ ~IsEmptyValue(raw[i].val) =>
                            atId \in DOMAIN out[i] /\ out[i][atId] # Null
                     /\ ReachesWidthStep(TableDefTS, atId, raw[i].val) =>
                            /\ atId \in DOMAIN out[i]
                            /\ out[i][atId] = WidthStepValue(TableDefTS, atId, raw[i].val)

\* a call mapped a cs row too short for val, the first mapped attribute:
\* the row is emitted with the null default for VAL and the date it holds
\* for DT
C25_Witness ==
    /\ filterType = {"assign-dates"}
    /\ tableIdExcludeD = {}
    /\ history # <<>>
    /\ Len(LastList) = 1
    /\ LastList[1].cats = [cs |-> [attrs |-> <<"dt", "val">>, rows |-> <<<<<<"D">>>>>>]]
    /\ Len(tableDataDict["TS"]) = 1
    /\ tableDataDict["TS"][1]["VAL"] = Null
    /\ tableDataDict["TS"][1]["DT"] = Date(<<"D">>)

\* C26: a table without mapped categories receives no rows and the call
\* does not raise, whether the table is the first of the schema or follows a
\* table that produced rows.
C26_UnmappedTableNoRows ==
    (/\ history # <<>>
     /\ "TE" \in Range(tableIdList)
     /\ "TE" \notin tableIdExcludeD)
    =>
        /\ ~processRaised
        /\ "TE" \in DOMAIN tableDataDict => tableDataDict["TE"] = <<>>

\* the merge-key tuples of the rows of ca and cb of a container
MergeKeysOf(container) ==
    (IF "ca" \in DOMAIN container.cats
     THEN {<<r[1]>> : r \in Range(container.cats["ca"].rows)} ELSE {})
    \cup
    (IF "cb" \in DOMAIN container.cats
     THEN {<<r[2]>> : r \in Range(container.cats["cb"].rows)} ELSE {})

\* the number of merge-key tuples, container by container
RECURSIVE MergeKeyCount(_)
MergeKeyCount(cl) ==
    IF cl = <<>> THEN 0
    ELSE Cardinality(MergeKeysOf(Head(cl))) + MergeKeyCount(Tail(cl))

\* the rows of TM emitted for the n-th container of the last call
MergedBlock(n) ==
    SubSeq(tableDataDict["TM"],
           MergeKeyCount(SubSeq(LastList, 1, n - 1)) + 1,
           MergeKeyCount(SubSeq(LastList, 1, n)))

\* the row holds the merge key: ca's key in A1 or cb's key in A3
HoldsMergeKey(d, tk) ==
    \/ "A1" \in DOMAIN d /\ d["A1"] = Str(tk[1])
    \/ "A3" \in DOMAIN d /\ d["A3"] = Str(tk[1])

\* C27: the rows of the merged table emitted for a container are as many as
\* the distinct merge-key tuples of the rows of its categories, one row per
\* tuple; rows of one category with equal key collapse into one row that
\* holds the later row's fields; rows of different containers are not merged.
C27_MergedRowCount ==
    (history # <<>> /\ "TM" \notin tableIdExcludeD) =>
    LET out == IF "TM" \in DOMAIN tableDataDict THEN tableDataDict["TM"] ELSE <<>>
    IN /\ Len(out) = MergeKeyCount(LastList)
       /\ \A n \in 1..Len(LastList) :
            /\ \A tk \in MergeKeysOf(LastList[n]) :
                Cardinality({i \in 1..Len(MergedBlock(n)) :
                                HoldsMergeKey(MergedBlock(n)[i], tk)}) = 1
            /\ ("ca" \in DOMAIN LastList[n].cats /\ "cb" \notin DOMAIN LastList[n].cats) =>
                LET rowsA == LastList[n].cats["ca"].rows IN
                \A j \in 1..Len(rowsA) :
                    (\A j2 \in (j + 1)..Len(rowsA) : rowsA[j2][1] # rowsA[j][1]) =>
                        \E i \in 1..Len(MergedBlock(n)) :
                            /\ MergedBlock(n)[i]["A1"] = Str(rowsA[j][1])
                            /\ MergedBlock(n)[i]["A2"] = Str(rowsA[j][2])

\* one container held two rows of ca with the key 'k': TM holds one row, with
\* the second row's value 'z' for A2
C27_Witness ==
    /\ history # <<>>
    /\ "TM" \notin tableIdExcludeD
    /\ Len(LastList) = 1
    /\ "ca" \in DOMAIN LastList[1].cats
    /\ LastList[1].cats["ca"].rows = <<<<<<"k">>, <<"x">>>>, <<<<"k">>, <<"z">>>>>>
    /\ Len(tableDataDict["TM"]) = 1
    /\ tableDataDict["TM"][1]["A2"] = Str(<<"z">>)

MeetsCondition(container, csD) ==
    /\ csD.TABLE_NAME \in DOMAIN container.cats
    /\ container.cats[csD.TABLE_NAME].rows # <<>>
    /\ LET raw == RawColumn(<<container>>, csD.TABLE_NAME, csD.ATTRIBUTE_NAME) IN
        \A ii \in 1..Len(raw) : raw[ii].has /\ raw[ii].val \in csD.VALUES

\* the container passes the content selectors of the run
PassesSelectors(container) ==
    \A i \in 1..Len(contentSelectors) :
        \A j \in 1..Len(GetContentSelector(contentSelectors[i])) :
            MeetsCondition(container, GetContentSelector(contentSelectors[i])[j])

\* C29: the mapping a call returns is the mapping, without selectors, of
\* the containers that meet every selector condition, so a rejected
\* container contributes no row to any table; the returned names are those
\* of all containers of the call, rejected ones included.
C29_ContentSelectors ==
    (history # <<>> /\ contentSelectors # <<>>) =>
        LET passing == SelectSeq(LastList, PassesSelectors) IN
        /\ ~processRaised
        /\ containerNameList = [i \in 1..Len(LastList) |-> LastList[i].name]
        /\ tableDataDict =
                ProcessTables(passing, tableIdList, <<>>, tableIdExcludeD,
                              filterType, EmptyDict).tdd

\* a call with the selector on cs.val mapped two containers, the first
\* rejected for its value 'abc' and the second accepted: both names are
\* returned and TS holds the one row of the second
C29_Witness ==
    /\ contentSelectors = <<"SEL_CS">>
    /\ filterType = {}
    /\ history # <<>>
    /\ Len(LastList) = 2
    /\ ~PassesSelectors(LastList[1])
    /\ "cs" \in DOMAIN LastList[1].cats
    /\ PassesSelectors(LastList[2])
    /\ Len(containerNameList) = 2
    /\ Len(tableDataDict["TS"]) = 1

(***************************************************************************)
(* The repository holdings: the update-list files, then                    *)
(* getHoldingsUpdate() calls.                                              *)
(***************************************************************************)
InitHoldings ==
    /\ filterType = {}
    /\ tableIdExcludeD = {}
    /\ MapIdle
    /\ WorkersIdle
    /\ ShapeIdle
    /\ updateLists \in {UpdateListFiles(lines) : lines \in SeqsUpTo(UpdateLines, MaxLines)}
    /\ retL = <<>>
    /\ holdingsCalled = FALSE

CallGetHoldingsUpdate ==
    /\ retL' = GetHoldingsUpdate(UpdateId, updateLists)
    /\ holdingsCalled' = TRUE
    /\ UNCHANGED <<mapVars, workerVars, shapeVars, heapVars, updateLists>>

NextHoldings == CallGetHoldingsUpdate

SpecHoldings == InitHoldings /\ [][NextHoldings]_vars

\* the entry ids in the files of an update type
ListedIds(updateType) ==
    UNION {Range(updateLists[updateType][contentType]) :
                contentType \in Range(contentTypeList)}

\* the names of the content types whose file of the update type lists the id
ListedContent(updateType, entryId) ==
    {contentNameD[contentType] :
        contentType \in {ct \in Range(contentTypeList) :
                            entryId \in Range(updateLists[updateType][ct])}}

\* the positions of the returned records of an update type
RecordsOf(updateType) ==
    {i \in 1..Len(retL) :
        retL[i].update_type = IF updateType = "obsolete" THEN "removed" ELSE updateType}

\* C30: getHoldingsUpdate returns, for each update type (obsolete reported
\* as removed), exactly one record per entry id that occurs in any of the
\* four files of that update type, and the record's repository_content_types
\* names every content type in whose file the entry id occurs.
C30_HoldingsComplete ==
    holdingsCalled =>
        \A updateType \in Range(updateTypeList) :
            /\ {retL[i].entry_id : i \in RecordsOf(updateType)} = ListedIds(updateType)
            /\ \A i, j \in RecordsOf(updateType) :
                    retL[i].entry_id = retL[j].entry_id => i = j
            /\ \A i \in RecordsOf(updateType) :
                    Range(retL[i].repository_content_types) =
                        ListedContent(updateType, retL[i].entry_id)

====
